---------------------------- MODULE Spec2Model ----------------------------
(***************************************************************************)
(* A model of the navecd per-project reconciliation engine:                *)
(*   - the component reconciler (pkg/component/reconciler.go),             *)
(*   - the garbage collector and the project tick,                         *)
(*   - the OCI artifact loader and the project manager's Load,             *)
(*   - the inventory directory (package inventory),                        *)
(*   - the update scheduler (package version).                             *)
(* Each subsystem has its own specification over the shared variables.     *)
(***************************************************************************)
EXTENDS Integers, FiniteSets, Sequences, TLC

(***************************************************************************)
(* Bounds of the model.                                                    *)
(***************************************************************************)
\* number of component identifiers
NComp == 3

\* number of project ticks in a behaviour
MaxTicks == 2

\* number of artifacts (image digests) the registry can serve
NDigest == 2

\* number of package directories of a project tree
NPath == 2

\* number of target directories (projects) sharing one cache directory
NTarget == 1

\* projects of one controller, each with its own target directory below the
\* cache directory they share
NProject == 2

\* number of Manager.Load calls in a behaviour
MaxLoads == 3

\* number of inventory items
NItem == 3

\* number of bucket directories (namespaces) of the inventory
NBucket == 2

\* length of the content handed to StoreItem
MaxLen == 2

\* length of the key (file name) of an item stored under an id of any form
MaxKey == 4

\* number of update instructions of a schedule request
MaxInstr == 2

\* number of Schedule calls in a behaviour
MaxCalls == 2

\* Schedule goroutines of one project that can run at the same time
NSchedule == 2

\* number of cron jobs whose scans run side by side
NScan == 3

\* length of the list of remote versions given to a strategy
MaxRemote == 2

\* number of objects of the shard that Install applies
NObject == 2

\* number of ticks of the projects that share one Reconciler
MaxCfgTicks == 4

\* number of calls of the project reconciler in a behaviour
MaxProjCalls == 3

\* number of component ids a dependency graph is built from
NNode == 3

\* number of directories of the project tree that walkDir visits
NDir == 252

\* make(chan string, 250): the capacity of packageChan
PackageChanCap == 250

\* context.WithTimeout(ctx, 60*time.Second), in seconds
TimeoutSeconds == 60

\* time.Sleep(1 * time.Second), in seconds
SleepSeconds == 1

Comp == 1..NComp

\* "no component": the zero value of an id / a nil error
NoComp == 0

(***************************************************************************)
(* State.                                                                  *)
(***************************************************************************)
VARIABLES
    \* ---- component graph handed to the reconciler
    deps,                    \* Instance.GetDependencies(): Comp -> SUBSET Comp
    instances,               \* the sorted instances handed to Reconcile
    workerPoolSize,          \* Reconciler.WorkerPoolSize
    \* ---- component.Reconciler.Reconcile / reconcileLayer
    recPhase,                \* "idle" | "inLayer" | "done"
    layerIdx,                \* index of the layer being reconciled
    pc,                      \* per component task: "idle" | "running" | "sending" | "done"
    outcome,                 \* per component: "none" | "skipped" | "ok" | "err"
    errChan,                 \* id received by the collector goroutine, not yet inserted
    errComponents,           \* error set of the current layer
    prevLayerErrComponents,  \* error set handed over by the previous layer
    recErr,                  \* recEG's first error of the current layer (id of the task)
    firstError,              \* Reconcile's firstError (id of the task that raised it)
    \* ---- inventory (the calls to the cluster are observed in applied, gcCollected)
    inventory,               \* ids of the items stored in the inventory
    \* ---- project tick (project.Reconciler.Reconcile) and garbage.Collector
    tickPhase,               \* "idle" | "loaded" | "sorted" | "gc" | "apply" | "returned" | "failed"
    ticks,                   \* number of ticks started
    dag,                     \* ids of the graph the project manager loaded
    gcItems,                 \* storage.Items(): the inventory snapshot Collect iterates
    gcPc,                    \* per inventory item task: "idle" | "deleting" | "done"
    gcErr,                   \* eg.Wait()'s first error of Collect (id of the item)
    tickResult,              \* "none" | "ok" | "componentError" | "hardError"
    \* ---- observation of the run (history)
    applied,                 \* components for which reconcile() issued an apply / chart call
    applyOk,                 \* manifests whose server-side apply returned without error
    gcCollected,             \* items for which collectManifest / collectHelmRelease ran
    gcDeleted,               \* items whose cluster delete / uninstall succeeded, while
                             \* Collect runs
    subsetTick,              \* the graph of this tick is a strict subset of the graph
                             \* the previous tick reconciled in full
    \* ---- OCI registry, cache directory and project work trees
    artifact,                \* per digest: the package directories its content layer holds
    markers,                 \* <cacheDir>/completion: digests with a .complete marker
    tdir,                    \* per target: [exists, files] of targetDir
    bkp,                     \* per target: [exists, files] of <targetDir>-bkp
    loads,                   \* number of Manager.Load calls made
    last,                    \* the most recent Manager.Load call and what it returned
    \* ---- observation of the loads (history)
    unpackedOk,              \* digests a LoadImage call unpacked and returned
    validFor,                \* digest LoadImage returned, no other digest prepared since
    loadedOk,                \* targets for which a Manager.Load returned an instance
    \* ---- inventory directory (inventory.Instance.Path) and its calls
    invDirs,                 \* bucket directories that exist under Path
    invFiles,                \* per item id with a file <bucket>/<id>: the bytes of the file
    invLast,                 \* the most recent StoreItem / DeleteItem call and its error
    invKeyed,                \* the key of the file stored under an id of any form, if any
    \* ---- observation of the inventory calls (history)
    invStored,               \* ids stored and not deleted since
    invDecodable,            \* ids whose latest StoreItem was handed a JSON document
    \* ---- version.UpdateScheduler
    jobs,                    \* scheduler.Jobs(): the cron jobs, [id, name, tags, owner]
    schedCalls,              \* number of Schedule calls made
    schedLast,               \* the most recent Schedule call and what it did to the jobs
    \* ---- the scans of the cron jobs and the updater goroutine
    scanPc,                  \* per scan task: "idle" | "scanning" | "sending"
    updating,                \* per scan task, its AvailableUpdate in the updater:
                             \* "none" | "edit" | "commit" | "push"
    \* ---- SemVerStrategy.HasNewerRemoteVersion
    semverCall,              \* the strategy's constraint and the arguments of the call
    semverRet,               \* what the call returned, NoReturn before it
    \* ---- the context handed to component.Reconciler.Reconcile
    ctxDone,                 \* ctx.Done() is closed: the caller cancelled the context
    \* ---- InstallAction.Install: the loop over the objects and installObject
    installPc,               \* "select" | "apply" | "sleep" | "returned"
    installObj,              \* index of the object being installed
    installClock,            \* seconds since timeoutCtx of the object was created
    installCancelled,        \* the ctx given to Install is cancelled
    installLast,             \* result of the latest Apply: "none" | "nil" | "NotFound" | "err" | "ctxErr"
    installRet,              \* what Install returned: "none" | "nil" | "err" | "ctxErr"
    installLate,             \* an Apply was attempted although the context was done
    \* ---- project.Reconciler.Reconcile: the Kubernetes client config of a tick
    revision,                \* which of the two revisions of Reconcile under src runs
    kubeConfig,              \* Reconciler.KubeConfig, the base config shared by all ticks
    cfg,                     \* the config the latest tick built its clients from
    gProject,                \* namespace and serviceAccountName of the latest tick's project
    cfgTicks,                \* number of ticks that chose their config
    \* ---- project.Reconciler.Reconcile: what one call did
    projCalls,               \* number of Reconcile calls made
    projLast,                \* the latest call: its project's suspend flag, what it did and returned
    projDone,                \* how often a load, a Schedule, a Collect and an apply have run so far
    \* ---- DependencyGraph.TopologicalSort and Layer
    depGraph,                \* the graph after Insert: its nodes and their declared dependencies
    sortRet,                 \* what TopologicalSort returned, NoSort before the call
    layerRet,                \* what Layer returned for the sorted instances, NoLayers before the call
    \* ---- project.Manager.Load: walkDir, the producers and the consumer of packageChan
    pkgPoolSize,             \* Manager.workerPoolSize, the limit of producerEg
    walked,                  \* number of directories WalkDir has visited
    sending,                 \* number of producer goroutines at packageChan <- relativePath
    packageChan,             \* number of package paths buffered in packageChan
    consumer,                \* the consumer goroutine: running, failed (returned an error) or done
    chanClosed,              \* close(packageChan) was called
    loadRet,                 \* what Load returned: none, ok or err
    \* ---- Schedule goroutines of the ticks of one project
    schedPc,                 \* per Schedule goroutine: where it is in Schedule and upsertJob
    schedReq,                \* per Schedule goroutine: the instruction of its request
    schedFound               \* per Schedule goroutine: id of the job upsertJob found, 0 for none

recVars == <<deps, instances, workerPoolSize, recPhase, layerIdx, pc, outcome, errChan,
             errComponents, prevLayerErrComponents, recErr, firstError, applied, applyOk>>
storeVars == <<inventory>>
tickVars == <<tickPhase, ticks, dag, gcItems, gcPc, gcErr, tickResult, gcCollected,
              gcDeleted, subsetTick>>

ociVars == <<artifact, markers, tdir, bkp, loads, last, unpackedOk, validFor,
             loadedOk>>

invVars == <<invDirs, invFiles, invLast, invKeyed, invStored, invDecodable>>

schedVars == <<jobs, schedCalls, schedLast>>

updVars == <<scanPc, updating>>

strategyVars == <<semverCall, semverRet>>

ctxVars == <<ctxDone>>

installVars == <<installPc, installObj, installClock, installCancelled, installLast,
                 installRet, installLate>>

cfgVars == <<revision, kubeConfig, cfg, gProject, cfgTicks>>

projVars == <<projCalls, projLast, projDone>>

graphVars == <<depGraph, sortRet, layerRet>>

pkgVars == <<pkgPoolSize, walked, sending, packageChan, consumer, chanClosed, loadRet>>

overlapVars == <<schedPc, schedReq, schedFound>>

ctlVars == <<schedVars, updVars, strategyVars, ctxVars, installVars, cfgVars,
            projVars,
            graphVars,
            pkgVars,
            overlapVars>>

\* what the actions of each subsystem of the controller leave alone
schedFrame == <<recVars, storeVars, tickVars, ociVars, invVars, updVars, strategyVars, ctxVars,
                installVars, cfgVars,
        projVars,
        graphVars,
        pkgVars,
        overlapVars>>

updFrame == <<recVars, storeVars, tickVars, ociVars, invVars, schedVars, strategyVars, ctxVars,
              installVars, cfgVars,
        projVars,
        graphVars,
        pkgVars,
        overlapVars>>

strategyFrame == <<recVars, storeVars, tickVars, ociVars, invVars, schedVars, updVars, ctxVars,
                   installVars, cfgVars,
        projVars,
        graphVars,
        pkgVars,
        overlapVars>>

vars == <<recVars, storeVars, tickVars, ociVars, invVars, ctlVars>>

(***************************************************************************)
(* Components and the dependency graph.                                    *)
(***************************************************************************)
\* the two component variants, reconcile dispatches on the type
KindOf(c) == IF c % 2 = 1 THEN "Manifest" ELSE "HelmRelease"

\* acyclic graphs: every edge points to a smaller identifier
Graphs == {d \in [Comp -> SUBSET Comp] : \A c \in Comp : \A x \in d[c] : x < c}

SetMax(S) == CHOOSE m \in S : \A x \in S : x <= m

\* layer = 1 + max(layer(dep)), 0 for a component without dependencies
RECURSIVE LayerOf(_, _)
LayerOf(d, c) == IF d[c] = {} THEN 0 ELSE 1 + SetMax({LayerOf(d, x) : x \in d[c]})

\* Layer(instances): the components of layer k
Layer(k) == {c \in instances : LayerOf(deps, c) = k}

NumLayers == IF instances = {} THEN 0 ELSE 1 + SetMax({LayerOf(deps, c) : c \in instances})

\* worker pool sizes the reconciler is configured with (-1: unbounded)
PoolSizes == {-1, 1, 2}

\* the values of the WorkerPoolSize field: a Reconciler literal that does
\* not name the field leaves it 0
ConfiguredPoolSizes == PoolSizes \cup {0}

\* the pool sizes of the ticks: one worker, or no limit
TickPoolSizes == {-1, 1}

(***************************************************************************)
(* component.Reconciler                                                    *)
(***************************************************************************)
\* errgroup.SetLimit: a negative limit is no limit
HasFreeWorker ==
    \/ workerPoolSize < 0
    \/ Cardinality({c \in Comp : pc[c] \in {"running", "sending"}}) < workerPoolSize

\* reconcileLayer: the dependency check a task does before reconciling
ErroneousDependencyNoCheck(c) == FALSE

ErroneousDependency(c) ==
    /\ prevLayerErrComponents # {}
    /\ \E dep \in deps[c] : dep \in prevLayerErrComponents

\* reconcileLayer: a skipped task returns nil, it sends nothing to errChan
AfterSkipSendsError == "sending"

AfterSkip == "done"

\* Reconcile: Layer(instances), then the loop enters the first layer
Reconcile ==
    /\ tickPhase = "apply"
    /\ recPhase = "idle"
    /\ recPhase' = IF NumLayers = 0 THEN "done" ELSE "inLayer"
    /\ layerIdx' = 0
    /\ prevLayerErrComponents' = {}
    /\ errComponents' = {}
    /\ errChan' = NoComp
    /\ recErr' = NoComp
    /\ firstError' = NoComp
    /\ UNCHANGED <<deps, instances, workerPoolSize, pc, outcome, applied, applyOk, storeVars,
                   tickVars, ociVars, invVars, ctlVars>>

\* recEG.Go: the task of a component starts; it is skipped on an erroneous
\* dependency, otherwise reconcile() issues the apply / chart call
Go(c) ==
    /\ recPhase = "inLayer"
    /\ c \in Layer(layerIdx)
    /\ pc[c] = "idle"
    /\ HasFreeWorker
    /\ IF ErroneousDependency(c)
       THEN /\ pc' = [pc EXCEPT ![c] = AfterSkip]
            /\ outcome' = [outcome EXCEPT ![c] = "skipped"]
            /\ UNCHANGED applied
       ELSE /\ pc' = [pc EXCEPT ![c] = "running"]
            /\ applied' = applied \cup {c}
            /\ UNCHANGED outcome
    /\ UNCHANGED <<deps, instances, workerPoolSize, recPhase, layerIdx, errChan,
                   errComponents, prevLayerErrComponents, recErr, firstError, applyOk, storeVars,
                   tickVars, ociVars, invVars, ctlVars>>

\* reconcile returns nil: the object is applied and its item stored
reconcileOk(c) ==
    /\ pc[c] = "running"
    /\ pc' = [pc EXCEPT ![c] = "done"]
    /\ outcome' = [outcome EXCEPT ![c] = "ok"]
    /\ inventory' = inventory \cup {c}
    /\ applyOk' = IF KindOf(c) = "Manifest" THEN applyOk \cup {c} ELSE applyOk
    /\ UNCHANGED <<deps, instances, workerPoolSize, recPhase, layerIdx, errChan,
                   errComponents, prevLayerErrComponents, recErr, firstError, applied, tickVars,
                   ociVars, invVars, ctlVars>>

\* the ways reconcile returns an error: the apply / chart call failed
\* (nothing is stored); or a manifest was applied and StoreItem failed, before
\* it created the item's file or while it wrote it
ReconcileErrors == {"applyErr", "storeErr", "storeErrFileCreated"}

\* reconcile: StoreItem is called after Apply returned without error only;
\* it leaves a file once os.Create succeeded
StoresItemAlways(stored) == TRUE

StoresItem(stored) == stored = "storeErrFileCreated"

reconcileErr(c, stored) ==
    /\ pc[c] = "running"
    /\ stored \in (IF KindOf(c) = "Manifest" THEN ReconcileErrors ELSE {"applyErr"})
    /\ pc' = [pc EXCEPT ![c] = "sending"]
    /\ outcome' = [outcome EXCEPT ![c] = "err"]
    /\ inventory' = IF StoresItem(stored) THEN inventory \cup {c} ELSE inventory
    /\ applyOk' = IF stored = "applyErr" THEN applyOk ELSE applyOk \cup {c}
    /\ UNCHANGED <<deps, instances, workerPoolSize, recPhase, layerIdx, errChan,
                   errComponents, prevLayerErrComponents, recErr, firstError, applied, tickVars,
                   ociVars, invVars, ctlVars>>

\* errChan <- id: the unbuffered send meets the collector's receive, the
\* task returns its error to recEG
errChanSend(c) ==
    /\ pc[c] = "sending"
    /\ errChan = NoComp
    /\ errChan' = c
    /\ pc' = [pc EXCEPT ![c] = "done"]
    /\ recErr' = IF recErr = NoComp THEN c ELSE recErr
    /\ UNCHANGED <<deps, instances, workerPoolSize, recPhase, layerIdx, outcome,
                   errComponents, prevLayerErrComponents, firstError, applied, applyOk, storeVars,
                   tickVars, ociVars, invVars, ctlVars>>

\* the collector goroutine stores the received id in errComponents
errComponentsInsert ==
    /\ errChan # NoComp
    /\ errComponents' = errComponents \cup {errChan}
    /\ errChan' = NoComp
    /\ UNCHANGED <<deps, instances, workerPoolSize, recPhase, layerIdx, pc, outcome,
                   prevLayerErrComponents, recErr, firstError, applied, applyOk, storeVars,
                   tickVars, ociVars, invVars, ctlVars>>

\* recEG.Wait(): every task of the layer was started and has returned
LayerTasksFinishedNoWait(k) == \A c \in Layer(k) : pc[c] # "idle"

LayerTasksFinishedOrFailed(k) ==
    \/ \A c \in Layer(k) : pc[c] = "done"
    \/ recErr # NoComp /\ \A c \in Layer(k) : pc[c] \in {"idle", "done"}

LayerTasksFinished(k) == \A c \in Layer(k) : pc[c] = "done"

\* close(errChan); errComponentsEG.Wait(): the collector has drained the channel
CollectorFinishedNoWait == TRUE

CollectorFinished == errChan = NoComp

\* Reconcile: an error of a layer is kept only if no error was kept before
KeepLastError(first, err) == IF err # NoComp THEN err ELSE first

KeepFirstError(first, err) == IF err # NoComp /\ first = NoComp THEN err ELSE first

\* reconcileLayer returns; Reconcile keeps the first error and enters the next layer
reconcileLayerReturn ==
    /\ recPhase = "inLayer"
    /\ LayerTasksFinished(layerIdx)
    /\ CollectorFinished
    /\ prevLayerErrComponents' = errComponents
    /\ firstError' = KeepFirstError(firstError, recErr)
    /\ errComponents' = {}
    /\ recErr' = NoComp
    /\ layerIdx' = layerIdx + 1
    /\ recPhase' = IF layerIdx + 1 >= NumLayers THEN "done" ELSE "inLayer"
    /\ UNCHANGED <<deps, instances, workerPoolSize, pc, outcome, errChan, applied, applyOk,
                   storeVars, tickVars, ociVars, invVars, ctlVars>>

(***************************************************************************)
(* garbage.Collector                                                       *)
(***************************************************************************)
\* eg.SetLimit(c.WorkerPoolSize) of Collect
HasFreeCollectWorker ==
    \/ workerPoolSize < 0
    \/ Cardinality({i \in Comp : gcPc[i] = "deleting"}) < workerPoolSize

\* collect: an inventory item is dangling iff the graph holds no node of its id
ShouldCollectAlways(i) == TRUE

ShouldCollectNever(i) == FALSE

ShouldCollect(i) == ~(i \in dag)

\* Collect: InventoryManager.Load() takes the snapshot the tasks are started for
Collect ==
    /\ tickPhase = "sorted"
    /\ tickPhase' = "gc"
    /\ gcItems' = inventory
    /\ gcPc' = [i \in Comp |-> "idle"]
    /\ gcErr' = NoComp
    /\ gcDeleted' = {}
    /\ UNCHANGED <<ociVars, invVars, ctlVars, recVars, storeVars, ticks, dag, tickResult, gcCollected, subsetTick>>

\* eg.Go(collect): the task of an item starts; an item of the graph is left
\* alone, for a dangling one the cluster delete / helm uninstall is issued
collect(i) ==
    /\ tickPhase = "gc"
    /\ i \in gcItems
    /\ gcPc[i] = "idle"
    /\ HasFreeCollectWorker
    /\ IF ShouldCollect(i)
       THEN /\ gcPc' = [gcPc EXCEPT ![i] = "deleting"]
            /\ gcCollected' = gcCollected \cup {i}
       ELSE /\ gcPc' = [gcPc EXCEPT ![i] = "done"]
            /\ UNCHANGED gcCollected
    /\ UNCHANGED <<ociVars, invVars, ctlVars, recVars, storeVars, tickPhase, ticks, dag, gcItems, gcErr, tickResult,
                   gcDeleted, subsetTick>>

\* collectManifest / collectHelmRelease: the cluster operation succeeded,
\* then DeleteItem removes the record
collectOk(i) ==
    /\ gcPc[i] = "deleting"
    /\ gcPc' = [gcPc EXCEPT ![i] = "done"]
    /\ inventory' = inventory \ {i}
    /\ gcDeleted' = gcDeleted \cup {i}
    /\ UNCHANGED <<ociVars, invVars, ctlVars, recVars, tickPhase, ticks, dag, gcItems, gcErr, tickResult,
                   gcCollected, subsetTick>>

\* collectManifest / collectHelmRelease: DeleteItem is called once the
\* cluster delete / helm uninstall returned without error, never before
DeleteItemCalledAlways(failed) == TRUE

DeleteItemCalled(failed) == failed # "clusterErr"

\* collectManifest / collectHelmRelease return an error: the cluster
\* operation failed (the record stays), or it succeeded and DeleteItem failed
collectErr(i, failed) ==
    /\ gcPc[i] = "deleting"
    /\ failed \in {"clusterErr", "inventoryErr"}
    /\ gcPc' = [gcPc EXCEPT ![i] = "done"]
    /\ gcErr' = IF gcErr = NoComp THEN i ELSE gcErr
    /\ gcDeleted' = IF failed = "clusterErr" THEN gcDeleted ELSE gcDeleted \cup {i}
    /\ inventory' = IF DeleteItemCalled(failed) /\ failed # "inventoryErr"
                    THEN inventory \ {i}
                    ELSE inventory
    /\ UNCHANGED <<ociVars, invVars, ctlVars, recVars, tickPhase, ticks, dag, gcItems, tickResult, gcCollected,
                   subsetTick>>

\* eg.Wait() of Collect: every task was started and has returned
CollectTasksFinishedNoWait == \A i \in gcItems : gcPc[i] # "idle"

CollectTasksFinished == \A i \in gcItems : gcPc[i] = "done"

(***************************************************************************)
(* project.Reconciler: one tick                                            *)
(***************************************************************************)
\* TopologicalSort fails on a dependency that is no node of the graph
UnknownDependency == \E c \in dag : ~(deps[c] \subseteq dag)

\* Reconcile: ProjectManager.Load returns the graph of the project, or fails
ProjectLoad ==
    /\ tickPhase \in {"idle", "returned", "failed"}
    /\ ticks < MaxTicks
    /\ ticks' = ticks + 1
    /\ \/ \E nodes \in SUBSET Comp :
            /\ dag' = nodes
            /\ tickPhase' = "loaded"
            /\ tickResult' = "none"
       \/ /\ dag' = {}
          /\ tickPhase' = "failed"
          /\ tickResult' = "hardError"
    /\ subsetTick' = /\ tickPhase = "returned"
                     /\ \A c \in dag : outcome[c] = "ok"
                     /\ tickPhase' = "loaded"
                     /\ dag' \subseteq dag
                     /\ dag' # dag
    /\ instances' = {}
    /\ recPhase' = "idle"
    /\ layerIdx' = 0
    /\ pc' = [c \in Comp |-> "idle"]
    /\ outcome' = [c \in Comp |-> "none"]
    /\ errChan' = NoComp
    /\ errComponents' = {}
    /\ prevLayerErrComponents' = {}
    /\ recErr' = NoComp
    /\ firstError' = NoComp
    /\ applied' = {}
    /\ applyOk' = {}
    /\ gcItems' = {}
    /\ gcPc' = [i \in Comp |-> "idle"]
    /\ gcErr' = NoComp
    /\ gcCollected' = {}
    /\ gcDeleted' = {}
    /\ UNCHANGED <<deps, workerPoolSize, storeVars, ociVars, invVars, ctlVars>>

\* Reconcile: Dag.TopologicalSort()
TopologicalSort ==
    /\ tickPhase = "loaded"
    /\ IF UnknownDependency
       THEN /\ tickPhase' = "failed"
            /\ tickResult' = "hardError"
            /\ UNCHANGED instances
       ELSE /\ tickPhase' = "sorted"
            /\ instances' = dag
            /\ UNCHANGED tickResult
    /\ UNCHANGED <<deps, workerPoolSize, recPhase, layerIdx, pc, outcome, errChan,
                   errComponents, prevLayerErrComponents, recErr, firstError, applied, applyOk,
                   storeVars, ticks, dag, gcItems, gcPc, gcErr, gcCollected, gcDeleted,
                   subsetTick, ociVars, invVars, ctlVars>>

\* Reconcile: Collect returns; its error is a hard error of the tick,
\* otherwise the components are handed to the component reconciler
CollectReturnIgnoringError ==
    /\ tickPhase = "gc"
    /\ CollectTasksFinished
    /\ tickPhase' = "apply"
    /\ gcDeleted' = {}
    /\ UNCHANGED <<ociVars, invVars, ctlVars, recVars, storeVars, ticks, dag, gcItems, gcPc, gcErr,
                   tickResult, gcCollected, subsetTick>>

CollectReturn ==
    /\ tickPhase = "gc"
    /\ CollectTasksFinished
    /\ IF gcErr # NoComp
       THEN /\ tickPhase' = "failed"
            /\ tickResult' = "hardError"
       ELSE /\ tickPhase' = "apply"
            /\ UNCHANGED tickResult
    /\ gcDeleted' = {}
    /\ UNCHANGED <<ociVars, invVars, ctlVars, recVars, storeVars, ticks, dag, gcItems, gcPc, gcErr,
                   gcCollected, subsetTick>>

\* Reconcile: the error of the component reconciler goes into
\* ReconcileResult.ComponentError, the tick itself returns a nil error
ComponentResultHard(err) == IF err # NoComp THEN "hardError" ELSE "ok"

ComponentResult(err) == IF err # NoComp THEN "componentError" ELSE "ok"

\* Reconcile: the component reconciler returned, the tick reports its result
ReconcileReturn ==
    /\ tickPhase = "apply"
    /\ recPhase = "done"
    /\ ticks <= MaxTicks
    /\ tickResult' = ComponentResult(firstError)
    /\ tickPhase' = IF tickResult' = "hardError" THEN "failed" ELSE "returned"
    /\ UNCHANGED <<ociVars, invVars, ctlVars, recVars, storeVars, ticks, dag, gcItems, gcPc, gcErr, gcCollected, gcDeleted,
                   subsetTick>>

(***************************************************************************)
(* OCI artifacts, the cache directory and the project work trees.          *)
(***************************************************************************)
\* digests of the well-formed navecd artifacts
Digest == 1..NDigest

\* images that are no navecd artifact: one media type is not the navecd one
WrongManifest == NDigest + 1

WrongConfig == NDigest + 2

WrongLayer == NDigest + 3

\* the images a registry can serve, named by their digest
Image == Digest \cup {WrongManifest, WrongConfig, WrongLayer}

\* the "" LoadImage returns together with an error
NoDigest == 0

\* package directories of a project tree, each holding one configuration file
Path == 1..NPath

\* target directories <cacheDir>/navecd/<uid>
Target == 1..NTarget

NoTarget == 0

\* content of a file: absent, the zero bytes createBackup writes, or the
\* bytes of the artifact (digest) it was unpacked from
NoFile == 0

Placeholder == -1

EmptyTree == [p \in Path |-> NoFile]

NoDir == [exists |-> FALSE, files |-> EmptyTree]

\* the content layers pushed to the registry: every artifact holds at least
\* one package; either all artifacts hold every package, or artifact d holds
\* the first d packages, so that artifacts add and drop packages
Artifacts == {[d \in Digest |-> Path], [d \in Digest |-> {p \in Path : p <= d}]}

\* tgz.Read: every file of the archive is created (truncated) in targetDir,
\* what targetDir holds besides is left in place
tgzRead(files, d) == [p \in Path |-> IF p \in artifact[d] THEN d ELSE files[p]]

\* tgz.Read returning an error before it creates entry k of the archive:
\* the entries before it are extracted
tgzReadPartial(files, d, k) ==
    [p \in Path |-> IF p \in artifact[d] /\ p < k THEN d ELSE files[p]]

\* createBackup: <targetDir>-bkp gets the directories of targetDir and an
\* empty file for each of its files
createBackupEmpty(files) == EmptyTree

createBackup(files) == [p \in Path |-> IF files[p] # NoFile THEN Placeholder ELSE NoFile]

\* the shape of a tree: the entries it holds, whatever their content
Shape(files) == {p \in Path : files[p] # NoFile}

\* LoadImage: the manifest or the config media type is not the navecd one
WrongManifestOrConfig(i) == i \in {WrongManifest, WrongConfig}

\* LoadImage: os.Stat(<cacheDir>/completion/<digest>.complete) succeeds
MarkerExistsNever(i) == FALSE

MarkerExists(i) == i \in markers

\* LoadImage: os.Create(marker) after the unpack
MarkerNotCreated(i) == {}

MarkerCreated(i) == {i}

\* what a call fails on, if the registry and the file system let it get there
LoadEnv == {"ok", "imageErr", "downloadErr", "unpackErr", "markerErr"}

\* the failures a call for the image i can get to: a call that returns at the
\* media type checks or at the marker never downloads, unpacks or marks
FaultPoints(i) ==
    IF WrongManifestOrConfig(i) \/ MarkerExists(i) \/ i = WrongLayer
    THEN {"ok", "imageErr"}
    ELSE LoadEnv

\* ProjectClient.LoadImage(ref, targetDir) while the registry serves the
\* image remote for <repo>:<ref>: what it returns and what it leaves in the
\* cache directory, the target directory and its backup
LoadImage(t, remote, env, k) ==
    LET untouched == [err |-> "nil", cause |-> "none", digest |-> NoDigest,
                      markers |-> markers, tdir |-> tdir[t], bkp |-> bkp[t],
                      prepared |-> FALSE, unpack |-> "none"]
        \* prepareDirs, createBackup
        prepared == [untouched EXCEPT !.prepared = TRUE,
                                      !.markers = {},
                                      !.tdir = [exists |-> TRUE, files |-> tdir[t].files],
                                      !.bkp = [exists |-> TRUE,
                                               files |-> createBackup(tdir[t].files)]]
    IN  IF env = "imageErr"
        THEN [untouched EXCEPT !.err = "error", !.cause = "registry"]
        ELSE IF WrongManifestOrConfig(remote)
        THEN [untouched EXCEPT !.err = "error", !.cause = "WrongMediaType"]
        ELSE IF MarkerExists(remote)
        THEN [untouched EXCEPT !.digest = remote]
        ELSE IF remote = WrongLayer
        THEN [prepared EXCEPT !.err = "RecoverableError", !.cause = "WrongMediaType"]
        ELSE IF env = "downloadErr"
        THEN [prepared EXCEPT !.err = "RecoverableError", !.cause = "download"]
        ELSE IF env = "unpackErr"
        THEN [prepared EXCEPT !.err = "UnrecoverableError", !.cause = "unpack",
                              !.unpack = "failed",
                              !.tdir.files = tgzReadPartial(tdir[t].files, remote, k)]
        ELSE IF env = "markerErr"
        THEN [prepared EXCEPT !.err = "error", !.cause = "marker",
                              !.unpack = "ok",
                              !.tdir.files = tgzRead(tdir[t].files, remote)]
        ELSE [prepared EXCEPT !.digest = remote,
                              !.markers = MarkerCreated(remote),
                              !.unpack = "ok",
                              !.tdir.files = tgzRead(tdir[t].files, remote)]

\* OCIRemoteLoader.Load: an UnrecoverableError is passed on, every other
\* error becomes a RecoverableLoadError with a backup path
OCIRemoteLoaderLoad(r) ==
    IF r.err = "nil"
    THEN [err |-> "nil", backupPath |-> "none"]
    ELSE IF r.err = "UnrecoverableError"
    THEN [err |-> "UnrecoverableError", backupPath |-> "none"]
    ELSE [err |-> "RecoverableLoadError",
          backupPath |-> IF r.err = "RecoverableError" THEN "targetDirBkp" ELSE "targetDir"]

\* walkDir: the directories below configPath that hold a configuration file
walkDir(files) == {p \in Path : files[p] # NoFile}

\* the graph the compiler builds from the packages of a tree: one component
\* per package, identified by the package and the content of its file
GraphOf(files) == {<<p, files[p]>> : p \in walkDir(files)}

\* what the compiler makes of packages resolved against a root that holds
\* empty files only
BuildOnPlaceholders == {"BuildError", "noInstances"}

\* the entries of the archive tgz.Read may fail at
EntriesOf(i) == IF i \in Digest THEN artifact[i] ELSE {1}

\* Manager.Load(projectPath = targetDir t, dir = ".") with the OCI remote
\* loader: load the image, fall back to the backup path on a recoverable
\* error, walk the tree and build the graph
ManagerLoad(t, remote, env, k, build) ==
    /\ loads < MaxLoads
    /\ env \in FaultPoints(remote)
    /\ k \in (IF env = "unpackErr" THEN EntriesOf(remote) ELSE {1})
    /\ build \in (IF env = "downloadErr" \/ (env = "ok" /\ remote = WrongLayer)
                  THEN BuildOnPlaceholders ELSE {"noInstances"})
    /\ LET r == LoadImage(t, remote, env, k)
           l == OCIRemoteLoaderLoad(r)
           \* os.Stat(configPath), configPath is the target directory
           configExists == r.tdir.exists
           hard == l.err = "UnrecoverableError" \/ ~configExists
           \* projectPath = BackupPath
           onBkp == l.backupPath = "targetDirBkp"
           packages == walkDir(r.tdir.files)
           buildErr == onBkp /\ packages # {} /\ build = "BuildError"
           instance == ~hard /\ ~buildErr
           graph == IF ~instance \/ onBkp THEN {} ELSE GraphOf(r.tdir.files)
           \* the directory BackupPath names, as the call leaves it
           backupDir == IF onBkp THEN r.bkp ELSE r.tdir
       IN  /\ loads' = loads + 1
           /\ markers' = r.markers
           /\ tdir' = [tdir EXCEPT ![t] = r.tdir]
           /\ bkp' = [bkp EXCEPT ![t] = r.bkp]
           /\ unpackedOk' = IF r.unpack = "ok" /\ r.err = "nil"
                            THEN unpackedOk \cup {remote}
                            ELSE unpackedOk
           /\ validFor' = IF r.digest # NoDigest THEN r.digest
                          ELSE IF r.prepared /\ remote # validFor THEN NoDigest
                          ELSE validFor
           /\ loadedOk' = IF instance /\ l.err = "nil" THEN loadedOk \cup {t} ELSE loadedOk
           /\ last' = [target |-> t,
                       image |-> remote,
                       \* what LoadImage returned and did
                       digest |-> r.digest,
                       err |-> r.err,
                       cause |-> r.cause,
                       prepared |-> r.prepared,
                       unpack |-> r.unpack,
                       changed |-> r.tdir # tdir[t],
                       \* the call before was on this target, returned a digest
                       \* (kept here) and the registry serves the same image
                       repeatOf |-> IF last.target = t /\ last.image = remote
                                    THEN last.digest ELSE NoDigest,
                       wasUnpackedOk |-> remote \in unpackedOk,
                       wasValid |-> remote = validFor,
                       \* the loader's BackupPath names an existing directory
                       \* with the entries targetDir had before the call
                       backupMirrors |-> /\ l.err = "RecoverableLoadError"
                                         /\ backupDir.exists
                                         /\ Shape(backupDir.files) = Shape(tdir[t].files),
                       \* what Manager.Load returned
                       result |-> IF instance THEN "instance" ELSE "hardError",
                       graph |-> graph,
                       graphKept |-> instance /\ graph = GraphOf(tdir[t].files),
                       hadTree |-> t \in loadedOk,
                       hadDir |-> tdir[t].exists]
    /\ UNCHANGED <<artifact, recVars, storeVars, tickVars, invVars, ctlVars>>

\* no Manager.Load call made yet
NoLoad ==
    [target |-> NoTarget, image |-> NoDigest, digest |-> NoDigest, err |-> "nil",
     cause |-> "none", prepared |-> FALSE, unpack |-> "none", changed |-> FALSE,
     repeatOf |-> NoDigest, wasUnpackedOk |-> FALSE, wasValid |-> FALSE,
     backupMirrors |-> FALSE,
     result |-> "none", graph |-> {}, graphKept |-> FALSE, hadTree |-> FALSE,
     hadDir |-> FALSE]

\* Reconciler.Reconcile: repositoryDir of each project of the controller
ProjectTarget == 1..NProject

\* an empty cache directory shared by the projects, nothing loaded yet
EmptySharedCache ==
    /\ markers = {}
    /\ tdir = [t \in ProjectTarget |-> NoDir]
    /\ bkp = [t \in ProjectTarget |-> NoDir]
    /\ loads = 0
    /\ last = NoLoad
    /\ unpackedOk = {}
    /\ validFor = NoDigest
    /\ loadedOk = {}

\* an empty cache directory, nothing loaded yet
EmptyCache ==
    /\ markers = {}
    /\ tdir = [t \in Target |-> NoDir]
    /\ bkp = [t \in Target |-> NoDir]
    /\ loads = 0
    /\ last = NoLoad
    /\ unpackedOk = {}
    /\ validFor = NoDigest
    /\ loadedOk = {}

(***************************************************************************)
(* The inventory (package inventory): a directory Path with one bucket     *)
(* directory per namespace and one file per item, <Path>/<bucket>/<id>.    *)
(* The calls run without I/O faults of the file system; a nil reader       *)
(* leaves the same empty file as a reader without content.                 *)
(***************************************************************************)
Item == 1..NItem

Bucket == 1..NBucket

\* itemNs: the bucket of an item is its namespace (its name when the
\* namespace is empty); several items share a bucket
itemNs(x) == ((x - 1) % NBucket) + 1

\* ManifestItem (key of 4 identifiers) or HelmReleaseItem (key of 3)
ItemKind(x) == IF x % 2 = 1 THEN "Manifest" ELSE "HelmRelease"

\* the bytes of a content: the line feed, and "obj" for the bytes of a JSON
\* object with kind and apiVersion written on one line
Byte == {"nl", "obj"}

Content == UNION {[1..n -> Byte] : n \in 0..MaxLen}

\* bufio.Reader.ReadString('\n'): the bytes up to and including the first
\* delimiter, or all the remaining bytes together with io.EOF
ReadString(p) ==
    IF \E i \in 1..Len(p) : p[i] = "nl"
    THEN LET i == CHOOSE j \in 1..Len(p) :
                      /\ p[j] = "nl"
                      /\ \A h \in 1..(j - 1) : p[h] # "nl"
         IN [line |-> SubSeq(p, 1, i), rest |-> SubSeq(p, i + 1, Len(p)), err |-> "nil"]
    ELSE [line |-> p, rest |-> <<>>, err |-> "EOF"]

\* StoreItem's copy loop: read a line, leave the loop on io.EOF, write the
\* line otherwise
RECURSIVE copyLines(_)
copyLines(p) ==
    LET r == ReadString(p)
    IN IF r.err = "EOF" THEN <<>> ELSE r.line \o copyLines(r.rest)

\* the files of a bucket directory
FilesIn(files, b) == {x \in DOMAIN files : itemNs(x) = b}

\* StoreItem: MkdirAll of the bucket, os.Create of the file, copy, Flush
StoreItem(x, p) ==
    /\ invDirs' = invDirs \cup {itemNs(x)}
    /\ invFiles' = [y \in DOMAIN invFiles \cup {x} |->
                        IF y = x THEN copyLines(p) ELSE invFiles[y]]
    /\ invLast' = [op |-> "StoreItem", item |-> x, content |-> p, err |-> "nil",
                   hadFile |-> x \in DOMAIN invFiles]
    /\ invStored' = invStored \cup {x}
    /\ invDecodable' = IF \E i \in 1..Len(p) : p[i] = "obj"
                       THEN invDecodable \cup {x}
                       ELSE invDecodable \ {x}
    /\ UNCHANGED <<invKeyed, recVars, storeVars, tickVars, ociVars, ctlVars>>

\* DeleteItem: open the bucket, Readdirnames(1); an empty bucket is removed
\* and io.EOF returned; otherwise the result is that of os.Remove of the file
DeleteItem(x) ==
    LET dir == itemNs(x)
        opened == dir \in invDirs
        empty == FilesIn(invFiles, dir) = {}
        err == IF ~opened THEN "PathError"
               ELSE IF empty THEN "EOF"
               ELSE IF x \notin DOMAIN invFiles THEN "PathError"
               ELSE "nil"
    IN /\ invDirs' = IF opened /\ empty THEN invDirs \ {dir} ELSE invDirs
       /\ invFiles' = IF err = "nil"
                      THEN [y \in DOMAIN invFiles \ {x} |-> invFiles[y]]
                      ELSE invFiles
       /\ invLast' = [op |-> "DeleteItem", item |-> x, content |-> <<>>, err |-> err,
                      hadFile |-> x \in DOMAIN invFiles]
       /\ invStored' = invStored \ {x}
       /\ invDecodable' = invDecodable \ {x}
       /\ UNCHANGED <<invKeyed, recVars, storeVars, tickVars, ociVars, ctlVars>>

\* GetItem: os.Open of <Path>/<bucket>/<id>; data is what the reader yields
GetItem(x) ==
    IF x \in DOMAIN invFiles
    THEN [err |-> "nil", data |-> invFiles[x]]
    ELSE [err |-> "PathError", data |-> <<>>]

\* json.Decoder.Decode of a manifest file: the first JSON value after any
\* white space; an empty or blank file ends in io.EOF
Decode(data) == IF \E i \in 1..Len(data) : data[i] = "obj" THEN "nil" ELSE "EOF"

\* the characters of a key: the separator, and "H" for the text HelmRelease
KeyChar == {"_", "H"}

Key == UNION {[1..n -> KeyChar] : n \in 1..MaxKey}

\* no file stored under an id of any form
NoKey == <<>>

\* the bucket of the item stored under an id of any form; it is walked last
KeyBucket == NBucket + 1

\* the payload the reconciler stores: one JSON object and a line feed
JSONLine == <<"obj", "nl">>

\* strings.Split(key, "_")
RECURSIVE Split(_)
Split(key) ==
    IF \E i \in 1..Len(key) : key[i] = "_"
    THEN LET i == CHOOSE j \in 1..Len(key) :
                      /\ key[j] = "_"
                      /\ \A h \in 1..(j - 1) : key[h] # "_"
         IN <<SubSeq(key, 1, i - 1)>> \o Split(SubSeq(key, i + 1, Len(key)))
    ELSE <<key>>

\* Load, the walk function on a file: identifier[1] is read before the
\* number of identifiers is looked at
LoadKey(key, data) ==
    LET identifier == Split(key)
    IN IF Len(identifier) < 2 THEN "panic"
       ELSE IF Len(identifier) = 3
            THEN IF identifier[3] = <<"H">> THEN "nil" ELSE "ErrWrongInventoryKey"
       ELSE IF Len(identifier) # 4 THEN "ErrWrongInventoryKey"
       ELSE Decode(data)

\* StoreItem of an item whose id is any key, with the reconciler's payload
StoreKeyed(key) ==
    /\ invKeyed = NoKey
    /\ invKeyed' = key
    /\ invDirs' = invDirs \cup {KeyBucket}
    /\ invLast' = [op |-> "StoreKeyed", item |-> 0, content |-> JSONLine, err |-> "nil",
                   hadFile |-> FALSE]
    /\ UNCHANGED <<invFiles, invStored, invDecodable, recVars, storeVars, tickVars, ociVars, ctlVars>>

\* Load: walk the files; a HelmRelease key is taken as it is, the file of a
\* Manifest key is decoded and any error ends the walk without a Storage
Load ==
    IF \E x \in DOMAIN invFiles : ItemKind(x) = "Manifest" /\ Decode(invFiles[x]) # "nil"
    THEN [err |-> "EOF", items |-> {}]
    ELSE IF invKeyed # NoKey /\ LoadKey(invKeyed, JSONLine) # "nil"
    THEN [err |-> LoadKey(invKeyed, JSONLine), items |-> {}]
    ELSE [err |-> "nil", items |-> DOMAIN invFiles]

\* Storage.HasItem
HasItem(storage, x) == x \in storage.items

\* no inventory call made yet
NoCall == [op |-> "none", item |-> 0, content |-> <<>>, err |-> "nil", hadFile |-> FALSE]

\* an empty inventory directory
InventoryIdle ==
    /\ invDirs = {}
    /\ invFiles = <<>>
    /\ invLast = NoCall
    /\ invKeyed = NoKey
    /\ invStored = {}
    /\ invDecodable = {}

(***************************************************************************)
(* version.UpdateScheduler: the cron jobs of the projects' update          *)
(* instructions. Strings are sequences of characters; every schedule is a  *)
(* valid cron expression.                                                  *)
(***************************************************************************)
\* ScheduleRequest.ProjectUID
Uid == {<<"a">>, <<"a", "-", "b">>}

NoUid == <<>>

\* UpdateInstruction.Target.Name()
TargetName == {<<"c">>}

File == {"f"}

\* strconv.Itoa(instruction.Line)
Line == {"1", "2"}

CronSchedule == {"hourly", "daily"}

UpdateInstruction ==
    [target : TargetName, file : File, line : Line, schedule : CronSchedule]

\* ScheduleRequest.Instructions
Instructions == UNION {[1..n -> UpdateInstruction] : n \in 0..MaxInstr}

jobName(projectUID, instruction) == projectUID \o <<"-">> \o instruction.target

keyValueTag(key, value) == <<key, value>>

\* strings.HasPrefix
HasPrefix(s, prefix) == Len(s) >= Len(prefix) /\ SubSeq(s, 1, Len(prefix)) = prefix

\* gocron.WithTags(scheduleTag, fileTag, lineTag)
TagsOf(instruction) ==
    {keyValueTag("schedule", instruction.schedule),
     keyValueTag("file", instruction.file),
     keyValueTag("line", instruction.line)}

\* the name and the file and line tags of a job are those of an instruction
Matches(job, projectUID, instruction) ==
    /\ job.name = jobName(projectUID, instruction)
    /\ keyValueTag("file", instruction.file) \in job.tags
    /\ keyValueTag("line", instruction.line) \in job.tags

haveJobForInstructionsByName(job, projectUID, updateInstructions) ==
    \E i \in 1..Len(updateInstructions) :
        job.name = jobName(projectUID, updateInstructions[i])

haveJobForInstructions(job, projectUID, updateInstructions) ==
    \E i \in 1..Len(updateInstructions) : Matches(job, projectUID, updateInstructions[i])

\* Schedule, first loop: the jobs left after RemoveJob of every job of the
\* name prefix that no instruction reaffirms
RemoveStale(js, projectUID, updateInstructions) ==
    {job \in js :
        ~(/\ HasPrefix(job.name, projectUID \o <<"-">>)
          /\ ~haveJobForInstructions(job, projectUID, updateInstructions))}

\* the id NewJob gives a job: one that no job has
FreshId(js) == CHOOSE n \in 1..(Cardinality(js) + 1) : \A job \in js : job.id # n

\* upsertJob: Update of the first job of the name and the file and line
\* tags, NewJob if there is none
upsertJobAlwaysNew(js, projectUID, instruction) ==
    js \cup {[id |-> FreshId(js), name |-> jobName(projectUID, instruction),
              tags |-> TagsOf(instruction), owner |-> projectUID]}

upsertJob(js, projectUID, instruction) ==
    LET found == {job \in js : Matches(job, projectUID, instruction)}
    IN IF found # {}
       THEN LET job == CHOOSE j \in found : \A o \in found : j.id <= o.id
            IN (js \ {job}) \cup
                   {[id |-> job.id, name |-> jobName(projectUID, instruction),
                     tags |-> TagsOf(instruction), owner |-> projectUID]}
       ELSE js \cup {[id |-> FreshId(js), name |-> jobName(projectUID, instruction),
                      tags |-> TagsOf(instruction), owner |-> projectUID]}

\* Schedule, second loop
RECURSIVE upsertJobs(_, _, _)
upsertJobs(js, projectUID, updateInstructions) ==
    IF updateInstructions = <<>>
    THEN js
    ELSE upsertJobs(upsertJob(js, projectUID, Head(updateInstructions)), projectUID,
                    Tail(updateInstructions))

\* the job set as names and tags, with the number of jobs of each
JobView(js) ==
    [v \in {[name |-> job.name, tags |-> job.tags] : job \in js} |->
        Cardinality({job \in js : job.name = v.name /\ job.tags = v.tags})]

\* UpdateScheduler.Schedule
Schedule(projectUID, updateInstructions) ==
    LET kept == RemoveStale(jobs, projectUID, updateInstructions)
        after == upsertJobs(kept, projectUID, updateInstructions)
    IN /\ schedCalls < MaxCalls
       /\ schedCalls' = schedCalls + 1
       /\ jobs' = after
       /\ schedLast' = [uid |-> projectUID,
                        instructions |-> updateInstructions,
                        repeat |-> /\ schedLast.uid = projectUID
                                   /\ schedLast.instructions = updateInstructions,
                        unchanged |-> JobView(after) = JobView(jobs),
                        removed |-> kept # jobs,
                        othersKept |-> \A job \in jobs :
                                           job.owner # projectUID => job \in after,
                        count |-> Cardinality(after)]
       /\ UNCHANGED schedFrame

\* no Schedule call made yet
NoRequest ==
    [uid |-> NoUid, instructions |-> <<>>, repeat |-> FALSE, unchanged |-> FALSE,
     removed |-> FALSE, othersKept |-> TRUE, count |-> 0]

\* a scheduler without jobs
SchedulerIdle ==
    /\ jobs = {}
    /\ schedCalls = 0
    /\ schedLast = NoRequest

(***************************************************************************)
(* The Schedule calls of the ticks of one project.  Reconcile starts a     *)
(* goroutine on every tick that loads the update repository and then calls *)
(* Schedule; nothing waits for it, so the goroutine of a tick can still be *)
(* in Schedule when that of the next tick gets there.  The gocron          *)
(* scheduler serialises its own operations (Jobs, RemoveJob, Update,       *)
(* NewJob), Schedule and upsertJob hold no lock across them.  Every        *)
(* request carries one instruction.                                        *)
(***************************************************************************)
overlapFrame == <<recVars, storeVars, tickVars, ociVars, invVars, updVars, strategyVars,
                  ctxVars, installVars, cfgVars, projVars, graphVars, pkgVars,
                  schedCalls, schedLast>>

ScheduleGoroutine == 1..NSchedule

\* gProject.GetUID() of the project
TickUid == <<"a">>

NoJobId == 0

NoInstruction == [target |-> <<>>, file |-> "", line |-> "", schedule |-> ""]

\* Reconcile: go func() { LoadLocally; Schedule(request) }()
scheduleGo(g, instruction) ==
    /\ schedPc[g] = "idle"
    /\ schedPc' = [schedPc EXCEPT ![g] = "remove"]
    /\ schedReq' = [schedReq EXCEPT ![g] = instruction]
    /\ UNCHANGED <<jobs, schedFound, overlapFrame>>

\* Schedule, first loop
scheduleRemove(g) ==
    /\ schedPc[g] = "remove"
    /\ jobs' = RemoveStale(jobs, TickUid, <<schedReq[g]>>)
    /\ schedPc' = [schedPc EXCEPT ![g] = "lookup"]
    /\ UNCHANGED <<schedReq, schedFound, overlapFrame>>

\* upsertJob: the loop over scheduler.Jobs()
upsertLookup(g) ==
    /\ schedPc[g] = "lookup"
    /\ LET found == {job \in jobs : Matches(job, TickUid, schedReq[g])}
       IN  IF found # {}
           THEN /\ schedFound' = [schedFound EXCEPT ![g] =
                        (CHOOSE j \in found : \A o \in found : j.id <= o.id).id]
                /\ schedPc' = [schedPc EXCEPT ![g] = "update"]
           ELSE /\ schedFound' = [schedFound EXCEPT ![g] = NoJobId]
                /\ schedPc' = [schedPc EXCEPT ![g] = "new"]
    /\ UNCHANGED <<jobs, schedReq, overlapFrame>>

\* upsertJob: scheduler.Update(job.ID(), ...); the error for a job removed
\* in between is logged by Schedule
upsertUpdate(g) ==
    /\ schedPc[g] = "update"
    /\ jobs' = {IF job.id = schedFound[g]
                THEN [id |-> job.id, name |-> jobName(TickUid, schedReq[g]),
                      tags |-> TagsOf(schedReq[g]), owner |-> TickUid]
                ELSE job : job \in jobs}
    /\ schedPc' = [schedPc EXCEPT ![g] = "idle"]
    /\ schedFound' = [schedFound EXCEPT ![g] = NoJobId]
    /\ schedReq' = [schedReq EXCEPT ![g] = NoInstruction]
    /\ UNCHANGED overlapFrame

\* upsertJob: scheduler.NewJob(...)
upsertNew(g) ==
    /\ schedPc[g] = "new"
    /\ jobs' = jobs \cup {[id |-> FreshId(jobs), name |-> jobName(TickUid, schedReq[g]),
                            tags |-> TagsOf(schedReq[g]), owner |-> TickUid]}
    /\ schedPc' = [schedPc EXCEPT ![g] = "idle"]
    /\ schedReq' = [schedReq EXCEPT ![g] = NoInstruction]
    /\ UNCHANGED <<schedFound, overlapFrame>>

\* no Schedule goroutine running
OverlapIdle ==
    /\ schedPc = [g \in ScheduleGoroutine |-> "idle"]
    /\ schedReq = [g \in ScheduleGoroutine |-> NoInstruction]
    /\ schedFound = [g \in ScheduleGoroutine |-> NoJobId]

(***************************************************************************)
(* The scans of the cron jobs (UpdateScheduler.scan) and the updater that  *)
(* NewUpdateScheduler starts with ListenForUpdates: one goroutine that     *)
(* receives from updateChan and edits, commits and pushes each update      *)
(* before it receives the next.                                            *)
(***************************************************************************)
ScanTask == 1..NScan

\* gocron fires a job: scan starts in a goroutine of its own
scanStart(t) ==
    /\ scanPc[t] = "idle"
    /\ scanPc' = [scanPc EXCEPT ![t] = "scanning"]
    /\ UNCHANGED <<updating, updFrame>>

\* scan: scanner.Scan found no update, or returned an error
scanNoUpdate(t) ==
    /\ scanPc[t] = "scanning"
    /\ scanPc' = [scanPc EXCEPT ![t] = "idle"]
    /\ UNCHANGED <<updating, updFrame>>

\* scan: hasUpdate, the task goes to send on updateChan
scanHasUpdate(t) ==
    /\ scanPc[t] = "scanning"
    /\ scanPc' = [scanPc EXCEPT ![t] = "sending"]
    /\ UNCHANGED <<updating, updFrame>>

\* the updater goroutine is at its receive
UpdaterReceivesAlways == TRUE

UpdaterReceives == \A t \in ScanTask : updating[t] = "none"

\* updateChan <- AvailableUpdate meets the receive of the updater
updateChanSend(t) ==
    /\ scanPc[t] = "sending"
    /\ UpdaterReceives
    /\ scanPc' = [scanPc EXCEPT ![t] = "idle"]
    /\ updating' = [updating EXCEPT ![t] = "edit"]
    /\ UNCHANGED updFrame

\* the updater processes the update: file edit, commit, push
update(t) ==
    /\ updating[t] # "none"
    /\ updating' = [updating EXCEPT ![t] = CASE updating[t] = "edit" -> "commit"
                                             [] updating[t] = "commit" -> "push"
                                             [] updating[t] = "push" -> "none"]
    /\ UNCHANGED <<scanPc, updFrame>>

\* no job fired yet, the updater waits
UpdaterIdle ==
    /\ scanPc = [t \in ScanTask |-> "idle"]
    /\ updating = [t \in ScanTask |-> "none"]

(***************************************************************************)
(* SemVerStrategy.HasNewerRemoteVersion.  Version strings are a few tags   *)
(* of a registry; semver.NewVersion parses them to major, minor and patch  *)
(* (a leading "v" is accepted and kept only in Original) or fails.         *)
(***************************************************************************)
VersionString == {"1.0.0", "1.1.0", "v1.1.0", "2.0.0", "latest"}

ConstraintString == {"*", "<2.0.0", "bad"}

Invalid == <<>>

\* semver.NewVersion
NewVersion(version) ==
    CASE version = "1.0.0" -> <<1, 0, 0>>
      [] version = "1.1.0" -> <<1, 1, 0>>
      [] version = "v1.1.0" -> <<1, 1, 0>>
      [] version = "2.0.0" -> <<2, 0, 0>>
      [] OTHER -> Invalid

\* semver.NewConstraint: whether the constraint parses
NewConstraint(constraint) == constraint # "bad"

\* Version.GreaterThan
GreaterThan(a, b) ==
    \/ a[1] > b[1]
    \/ a[1] = b[1] /\ a[2] > b[2]
    \/ a[1] = b[1] /\ a[2] = b[2] /\ a[3] > b[3]

\* Constraints.Check
Check(constraint, v) ==
    CASE constraint = "*" -> TRUE
      [] constraint = "<2.0.0" -> GreaterThan(<<2, 0, 0>>, v)
      [] OTHER -> FALSE

\* no remote version kept yet (latestRemoteSemverVersion == nil)
NoVersion == ""

\* the body of the loop: latest is the Original of the version kept so far
keepLast(constraint, latest, version) ==
    IF NewVersion(version) = Invalid \/ ~Check(constraint, NewVersion(version))
    THEN latest
    ELSE version

keepGreatest(constraint, latest, version) ==
    IF NewVersion(version) = Invalid \/ ~Check(constraint, NewVersion(version))
    THEN latest
    ELSE IF latest = NoVersion
         THEN version
         ELSE IF GreaterThan(NewVersion(version), NewVersion(latest))
              THEN version
              ELSE latest

\* the loop over the iterator, from its i-th version on
RECURSIVE latestRemoteSemverVersion(_, _, _, _)
latestRemoteSemverVersion(constraint, remoteVersions, i, latest) ==
    IF i > Len(remoteVersions)
    THEN latest
    ELSE latestRemoteSemverVersion(constraint, remoteVersions, i + 1,
                                   keepGreatest(constraint, latest, remoteVersions[i]))

HasNewerRemoteVersion(constraint, currentVersion, remoteVersions) ==
    IF ~NewConstraint(constraint)
    THEN [version |-> "", isNewer |-> FALSE, err |-> "constraint"]
    ELSE LET latest == latestRemoteSemverVersion(constraint, remoteVersions, 1, NoVersion)
         IN  IF latest = NoVersion
             THEN [version |-> "", isNewer |-> FALSE, err |-> "nil"]
             ELSE IF NewVersion(currentVersion) = Invalid
                  THEN [version |-> "", isNewer |-> FALSE, err |-> "version"]
                  ELSE IF GreaterThan(NewVersion(latest), NewVersion(currentVersion))
                       THEN [version |-> latest, isNewer |-> TRUE, err |-> "nil"]
                       ELSE [version |-> latest, isNewer |-> FALSE, err |-> "nil"]

RemoteVersions == UNION {[1..n -> VersionString] : n \in 0..MaxRemote}

NoReturn == [version |-> "", isNewer |-> FALSE, err |-> "none"]

\* one call of the strategy on the arguments drawn at the start
CallHasNewerRemoteVersion ==
    /\ semverRet = NoReturn
    /\ semverRet' = HasNewerRemoteVersion(semverCall.constraint, semverCall.currentVersion,
                                          semverCall.remoteVersions)
    /\ UNCHANGED <<semverCall, strategyFrame>>

\* no strategy called
StrategyIdle ==
    /\ semverCall = [constraint |-> "*", currentVersion |-> "1.0.0", remoteVersions |-> <<>>]
    /\ semverRet = NoReturn

\* the caller of Reconcile cancels the context while Reconcile runs.  No
\* statement of Reconcile or reconcileLayer reads ctx: it is only handed on
\* to reconcile, whose calls in flight may still return either way.
cancel ==
    /\ tickPhase = "apply"
    /\ recPhase \in {"idle", "inLayer"}
    /\ ~ctxDone
    /\ ctxDone' = TRUE
    /\ UNCHANGED <<recVars, storeVars, tickVars, ociVars, invVars, schedVars, updVars,
                   strategyVars, installVars, cfgVars,
        projVars,
        graphVars,
        pkgVars,
        overlapVars>>

\* the context is live
ContextLive == ctxDone = FALSE

(***************************************************************************)
(* InstallAction.Install: the loop that applies the objects of the shard,  *)
(* each under a context with a timeout of its own, and installObject, the  *)
(* retry of Apply while the API server answers NotFound.  The clock counts *)
(* the seconds of the current object's timeoutCtx up to the deadline.      *)
(***************************************************************************)
installFrame == <<recVars, storeVars, tickVars, ociVars, invVars, schedVars, updVars,
                  strategyVars, ctxVars, cfgVars,
        projVars,
        graphVars,
        pkgVars,
        overlapVars>>

\* timeoutCtx is done: its deadline has passed or the parent was cancelled
TimeoutCtxDone == installCancelled \/ installClock >= TimeoutSeconds

\* installObject: what the select on ctx.Done() takes
selectDoneNever == FALSE

selectDone == TimeoutCtxDone

\* k8sErrors.IsNotFound
IsNotFound(err) == err = "NotFound"

\* installObject is entered: the select returns ctx.Err() or falls through to Apply
installObject ==
    /\ installPc = "select"
    /\ IF selectDone
       THEN /\ installPc' = "returned"
            /\ installRet' = "ctxErr"
            /\ UNCHANGED installLate
       ELSE /\ installPc' = "apply"
            /\ installLate' = (installLate \/ TimeoutCtxDone)
            /\ UNCHANGED installRet
    /\ UNCHANGED <<installObj, installClock, installCancelled, installLast, installFrame>>

\* the Apply call waits for the API server
applyWait ==
    /\ installPc = "apply"
    /\ installClock < TimeoutSeconds
    /\ installClock' = installClock + 1
    /\ UNCHANGED <<installPc, installObj, installCancelled, installLast, installRet,
                   installLate, installFrame>>

\* what Apply can return: with a done context the request fails with the
\* context's error unless the answer had already arrived
ApplyResults ==
    IF TimeoutCtxDone THEN {"nil", "NotFound", "err", "ctxErr"} ELSE {"nil", "NotFound", "err"}

\* Apply returns: nil goes on with the next object of Install's loop,
\* NotFound sleeps and retries, any other error is returned
applyReturn(err) ==
    /\ installPc = "apply"
    /\ err \in ApplyResults
    /\ installLast' = err
    /\ IF err = "nil"
       THEN IF installObj < NObject
            THEN /\ installObj' = installObj + 1
                 /\ installClock' = 0
                 /\ installPc' = "select"
                 /\ UNCHANGED installRet
            ELSE /\ installPc' = "returned"
                 /\ installRet' = "nil"
                 /\ UNCHANGED <<installObj, installClock>>
       ELSE IF IsNotFound(err)
            THEN /\ installPc' = "sleep"
                 /\ UNCHANGED <<installObj, installClock, installRet>>
            ELSE /\ installPc' = "returned"
                 /\ installRet' = err
                 /\ UNCHANGED <<installObj, installClock>>
    /\ UNCHANGED <<installCancelled, installLate, installFrame>>

\* time.Sleep returns, installObject calls itself
sleep ==
    /\ installPc = "sleep"
    /\ installPc' = "select"
    /\ installClock' = IF installClock + SleepSeconds >= TimeoutSeconds
                       THEN TimeoutSeconds
                       ELSE installClock + SleepSeconds
    /\ UNCHANGED <<installObj, installCancelled, installLast, installRet, installLate,
                   installFrame>>

\* the caller of Install cancels its context
cancelInstall ==
    /\ installPc # "returned"
    /\ ~installCancelled
    /\ installCancelled' = TRUE
    /\ UNCHANGED <<installPc, installObj, installClock, installLast, installRet, installLate,
                   installFrame>>

\* Install reaches its loop over the objects with the first object
InstallStart ==
    /\ installPc = "select"
    /\ installObj = 1
    /\ installClock = 0
    /\ installCancelled = FALSE
    /\ installLast = "none"
    /\ installRet = "none"
    /\ installLate = FALSE

(***************************************************************************)
(* project.Reconciler.Reconcile: the choice of the Kubernetes client       *)
(* config of a tick.  Reconciler.KubeConfig is a *rest.Config shared by    *)
(* the ticks of all projects.  src holds two revisions of the statement:   *)
(* pkg/project/reconciler.go assigns the pointer to cfg and sets           *)
(* cfg.Impersonate; the Reconcile in gitopsproject_controller_test.go      *)
(* copies the struct (impCfg := *reconciler.KubeConfig) and sets           *)
(* Impersonate on the copy.                                                *)
(***************************************************************************)
cfgFrame == <<recVars, storeVars, tickVars, ociVars, invVars, schedVars, updVars,
              strategyVars, ctxVars, installVars,
        projVars,
        graphVars,
        pkgVars,
        overlapVars>>

Namespace == {"tenant", "other", "default"}

ServiceAccountName == {"", "mysa", "admin"}

\* rest.ImpersonationConfig{}: no impersonation
NoUser == <<>>

\* fmt.Sprintf("system:serviceaccount:%s:%s", Namespace, ServiceAccountName)
UserName(namespace, serviceAccountName) ==
    <<"system", ":", "serviceaccount", ":", namespace, ":", serviceAccountName>>

Revisions == {"pointer", "copy"}

\* the base config after the statement
KubeConfigAfter(namespace, serviceAccountName) ==
    IF serviceAccountName # "" /\ revision = "pointer"
    THEN [Impersonate |-> UserName(namespace, serviceAccountName)]
    ELSE kubeConfig

\* the config the tick goes on with
CfgAfter(namespace, serviceAccountName) ==
    IF serviceAccountName # ""
    THEN [Impersonate |-> UserName(namespace, serviceAccountName)]
    ELSE KubeConfigAfter(namespace, serviceAccountName)

\* a tick of a project that is not suspended chooses its config
ReconcileConfig(namespace, serviceAccountName) ==
    /\ cfgTicks < MaxCfgTicks
    /\ cfgTicks' = cfgTicks + 1
    /\ gProject' = [Namespace |-> namespace, ServiceAccountName |-> serviceAccountName]
    /\ kubeConfig' = KubeConfigAfter(namespace, serviceAccountName)
    /\ cfg' = CfgAfter(namespace, serviceAccountName)
    /\ UNCHANGED <<revision, cfgFrame>>

\* the Reconciler as the controller constructs it: the base config of the
\* control plane, no impersonation
ConfigIdle ==
    /\ revision = "copy"
    /\ kubeConfig = [Impersonate |-> NoUser]
    /\ cfg = [Impersonate |-> NoUser]
    /\ gProject = [Namespace |-> "tenant", ServiceAccountName |-> ""]
    /\ cfgTicks = 0

(***************************************************************************)
(* project.Reconciler.Reconcile as one call: the suspend check and the     *)
(* steps after it, each of which may fail and end the call.                *)
(***************************************************************************)
projFrame == <<recVars, storeVars, tickVars, ociVars, invVars, schedVars, updVars,
               strategyVars, ctxVars, installVars, cfgVars,
        graphVars,
        pkgVars,
        overlapVars>>

\* GitOpsProjectSpec.Suspend is a *bool: not set, or a pointer to a value
Suspend == {"nil", "true", "false"}

\* the step of Reconcile that returns an error
Faults == {"none", "client", "repository", "load", "sort", "collect"}

\* the order of the steps in Reconcile
StepOf(fault) ==
    CASE fault = "client" -> 1
      [] fault = "repository" -> 2
      [] fault = "load" -> 3
      [] fault = "sort" -> 4
      [] fault = "collect" -> 5
      [] OTHER -> 6

\* if *gProject.Spec.Suspend
IsSuspendedNever(suspend) == FALSE

IsSuspended(suspend) == suspend = "true"

\* what a call did and returned.  The dereference of a Suspend that is not
\* set is a nil pointer dereference: the call panics before any step.
ReconcileProject(suspend, fault, componentError) ==
    IF suspend = "nil"
    THEN [suspend |-> suspend, result |-> "panic", err |-> "none", loaded |-> FALSE,
          scheduled |-> FALSE, collected |-> FALSE, applied |-> FALSE]
    ELSE IF IsSuspended(suspend)
         THEN [suspend |-> suspend, result |-> "suspended", err |-> "nil", loaded |-> FALSE,
               scheduled |-> FALSE, collected |-> FALSE, applied |-> FALSE]
         ELSE [suspend |-> suspend,
               result |-> IF fault # "none" THEN "error"
                          ELSE IF componentError THEN "componentError" ELSE "ok",
               err |-> IF fault # "none" THEN fault ELSE "nil",
               loaded |-> StepOf(fault) >= 3,
               scheduled |-> StepOf(fault) > 3,
               collected |-> StepOf(fault) >= 5,
               applied |-> StepOf(fault) > 5]

NoProjectCall ==
    [suspend |-> "false", result |-> "none", err |-> "none", loaded |-> FALSE,
     scheduled |-> FALSE, collected |-> FALSE, applied |-> FALSE]

Count(n, b) == IF b THEN n + 1 ELSE n

\* one call of Reconcile for a project
CallReconcile(suspend, fault, componentError) ==
    /\ projCalls < MaxProjCalls
    /\ projCalls' = projCalls + 1
    /\ projLast' = ReconcileProject(suspend, fault, componentError)
    /\ projDone' = [load |-> Count(projDone.load, projLast'.loaded),
                    schedule |-> Count(projDone.schedule, projLast'.scheduled),
                    collect |-> Count(projDone.collect, projLast'.collected),
                    apply |-> Count(projDone.apply, projLast'.applied)]
    /\ UNCHANGED projFrame

\* no call of the project reconciler made
ProjectIdle ==
    /\ projCalls = 0
    /\ projLast = NoProjectCall
    /\ projDone = [load |-> 0, schedule |-> 0, collect |-> 0, apply |-> 0]

(***************************************************************************)
(* DependencyGraph.TopologicalSort and Layer over graphs of any shape:     *)
(* dependencies on absent ids and cycles included.  TopologicalSort is     *)
(* Kahn's algorithm with ties broken by ascending id; Layer walks the      *)
(* sorted instances and puts each one layer above its deepest dependency.  *)
(***************************************************************************)
graphFrame == <<recVars, storeVars, tickVars, ociVars, invVars, schedVars, updVars,
                strategyVars, ctxVars, installVars, cfgVars, projVars,
        pkgVars,
        overlapVars>>

NodeId == 1..NNode

\* the graphs Insert can build: a set of nodes, each with declared dependencies
DependencyGraphs ==
    UNION {[nodes : {ns}, dependencies : [ns -> SUBSET NodeId]] : ns \in SUBSET NodeId}

SetMin(S) == CHOOSE m \in S : \A x \in S : m <= x

\* the nodes whose dependencies have all been emitted
EligibleAny(g, remaining) == remaining

Eligible(g, remaining) ==
    {n \in remaining : g.dependencies[n] \cap remaining = {}}

RECURSIVE kahn(_, _, _)
kahn(g, remaining, out) ==
    IF remaining = {}
    THEN [err |-> "nil", instances |-> out]
    ELSE IF Eligible(g, remaining) = {}
         THEN [err |-> "CycleDetected", instances |-> <<>>]
         ELSE LET n == SetMin(Eligible(g, remaining))
              IN  kahn(g, remaining \ {n}, Append(out, n))

TopologicalSortOf(g) ==
    IF \E n \in g.nodes : ~(g.dependencies[n] \subseteq g.nodes)
    THEN [err |-> "UnknownDependency", instances |-> <<>>]
    ELSE kahn(g, g.nodes, <<>>)

\* the layer of an instance, given the layers of the instances before it
layerShallowest(g, m, n) ==
    IF g.dependencies[n] = {} THEN 0
    ELSE 1 + SetMin({m[d] : d \in g.dependencies[n]})

layerAbove(g, m, n) ==
    IF g.dependencies[n] = {} THEN 0
    ELSE 1 + SetMax({m[d] : d \in g.dependencies[n]})

\* Layer: the walk over the sorted instances, from the i-th on
RECURSIVE layerWalk(_, _, _, _)
layerWalk(g, sorted, i, m) ==
    IF i > Len(sorted)
    THEN m
    ELSE layerWalk(g, sorted, i + 1,
                   [x \in DOMAIN m \cup {sorted[i]} |->
                        IF x = sorted[i] THEN layerAbove(g, m, sorted[i]) ELSE m[x]])

\* Layer(sorted): the layers, layer k at index k + 1
InstanceLayers(g, sorted) ==
    LET m == layerWalk(g, sorted, 1, <<>>)
    IN  IF Len(sorted) = 0
        THEN <<>>
        ELSE [k \in 1..(1 + SetMax({m[n] : n \in DOMAIN m})) |->
                  {n \in DOMAIN m : m[n] = k - 1}]

NoSort == [err |-> "none", instances |-> <<>>]

NoLayers == [done |-> FALSE, layers |-> <<>>]

\* TopologicalSort on the graph
SortGraph ==
    /\ sortRet = NoSort
    /\ sortRet' = TopologicalSortOf(depGraph)
    /\ UNCHANGED <<depGraph, layerRet, graphFrame>>

\* Layer on the instances TopologicalSort returned
LayerSorted ==
    /\ sortRet.err = "nil"
    /\ layerRet = NoLayers
    /\ layerRet' = [done |-> TRUE, layers |-> InstanceLayers(depGraph, sortRet.instances)]
    /\ UNCHANGED <<depGraph, sortRet, graphFrame>>

\* no graph sorted
GraphIdle ==
    /\ depGraph = [nodes |-> {}, dependencies |-> <<>>]
    /\ sortRet = NoSort
    /\ layerRet = NoLayers

(***************************************************************************)
(* project.Manager.Load: walkDir starts a producer goroutine per           *)
(* directory under the limit of producerEg; a producer of a directory with *)
(* .cue files sends its path on the buffered packageChan; one consumer     *)
(* goroutine receives the paths, builds each package and inserts it into   *)
(* the graph, and returns on the first error.  Load waits for the          *)
(* producers, closes the channel and waits for the consumer.               *)
(***************************************************************************)
pkgFrame == <<recVars, storeVars, tickVars, ociVars, invVars, schedVars, updVars,
              strategyVars, ctxVars, installVars, cfgVars, projVars, graphVars,
        overlapVars>>

\* the positive pool sizes of the manager
PackagePoolSizes == {1, 2}

\* walkDir: packageGroup.Go for the next directory; a directory without
\* .cue files ends its goroutine at once
walkDirGo(hasCUE) ==
    /\ loadRet = "none"
    /\ walked < NDir
    /\ sending < pkgPoolSize
    /\ walked' = walked + 1
    /\ sending' = IF hasCUE THEN sending + 1 ELSE sending
    /\ UNCHANGED <<pkgPoolSize, packageChan, consumer, chanClosed, loadRet, pkgFrame>>

\* packageChan <- relativePath: the send needs room in the buffer
packageChanSend ==
    /\ sending > 0
    /\ packageChan < PackageChanCap
    /\ sending' = sending - 1
    /\ packageChan' = packageChan + 1
    /\ UNCHANGED <<pkgPoolSize, walked, consumer, chanClosed, loadRet, pkgFrame>>

\* the consumer receives a path, builds the package and inserts it; on an
\* error of Build or Insert it returns and receives no more
consumerReceive(ok) ==
    /\ consumer = "running"
    /\ packageChan > 0
    /\ packageChan' = packageChan - 1
    /\ consumer' = IF ok THEN "running" ELSE "failed"
    /\ UNCHANGED <<pkgPoolSize, walked, sending, chanClosed, loadRet, pkgFrame>>

\* walkDir returned and producerEg.Wait() did: close(packageChan)
closePackageChan ==
    /\ loadRet = "none"
    /\ ~chanClosed
    /\ walked = NDir
    /\ sending = 0
    /\ chanClosed' = TRUE
    /\ UNCHANGED <<pkgPoolSize, walked, sending, packageChan, consumer, loadRet, pkgFrame>>

\* the range over the closed and drained channel ends: resultChan <- &dag
consumerDone ==
    /\ consumer = "running"
    /\ chanClosed
    /\ packageChan = 0
    /\ consumer' = "done"
    /\ UNCHANGED <<pkgPoolSize, walked, sending, packageChan, chanClosed, loadRet, pkgFrame>>

\* consumerEg.Wait() returns: Load returns the graph or the error
loadReturn ==
    /\ loadRet = "none"
    /\ chanClosed
    /\ consumer # "running"
    /\ loadRet' = IF consumer = "done" THEN "ok" ELSE "err"
    /\ UNCHANGED <<pkgPoolSize, walked, sending, packageChan, consumer, chanClosed, pkgFrame>>

\* Load has started its goroutines, walkDir has visited nothing yet
PackagesIdle ==
    /\ pkgPoolSize = 1
    /\ walked = 0
    /\ sending = 0
    /\ packageChan = 0
    /\ consumer = "running"
    /\ chanClosed = FALSE
    /\ loadRet = "none"

\* the subsystems of the controller at rest
ControllerIdle ==
    /\ SchedulerIdle
    /\ UpdaterIdle
    /\ StrategyIdle
    /\ ContextLive
    /\ InstallStart
    /\ ConfigIdle
    /\ ProjectIdle
    /\ GraphIdle
    /\ PackagesIdle
    /\ OverlapIdle

\* the loader at rest, for the specifications of the reconcilers
OciIdle ==
    /\ artifact = [d \in Digest |-> Path]
    /\ EmptyCache

\* the reconcilers at rest, for the specification of the loader
ReconcilersIdle ==
    /\ deps = [c \in Comp |-> {}]
    /\ instances = {}
    /\ workerPoolSize = 1
    /\ recPhase = "idle"
    /\ layerIdx = 0
    /\ pc = [c \in Comp |-> "idle"]
    /\ outcome = [c \in Comp |-> "none"]
    /\ errChan = NoComp
    /\ errComponents = {}
    /\ prevLayerErrComponents = {}
    /\ recErr = NoComp
    /\ firstError = NoComp
    /\ inventory = {}
    /\ applied = {}
    /\ applyOk = {}
    /\ tickPhase = "idle"
    /\ ticks = 0
    /\ dag = {}
    /\ gcItems = {}
    /\ gcPc = [i \in Comp |-> "idle"]
    /\ gcErr = NoComp
    /\ tickResult = "none"
    /\ gcCollected = {}
    /\ gcDeleted = {}
    /\ subsetTick = FALSE

(***************************************************************************)
(* Specification of the loads of projects that share one cache directory.  *)
(***************************************************************************)
InitOci ==
    /\ artifact \in Artifacts
    /\ EmptyCache
    /\ ReconcilersIdle
    /\ InventoryIdle
    /\ ControllerIdle

NextOci ==
    \E t \in Target, remote \in Image, env \in LoadEnv, k \in Path,
       build \in BuildOnPlaceholders :
            ManagerLoad(t, remote, env, k, build)

SpecOci == InitOci /\ [][NextOci]_vars

(***************************************************************************)
(* Specification of the loads of the projects of one controller: every     *)
(* project has its target directory <CacheDir>/navecd/<uid>, all of them   *)
(* hand the same CacheDir, with its completion directory, to the client.   *)
(***************************************************************************)
InitShared ==
    /\ artifact \in Artifacts
    /\ EmptySharedCache
    /\ ReconcilersIdle
    /\ InventoryIdle
    /\ ControllerIdle

NextShared ==
    \E t \in ProjectTarget, remote \in Image, env \in LoadEnv, k \in Path,
       build \in BuildOnPlaceholders :
            ManagerLoad(t, remote, env, k, build)

SpecShared == InitShared /\ [][NextShared]_vars

(***************************************************************************)
(* Specification of the calls on one inventory directory.                  *)
(***************************************************************************)
InitInv ==
    /\ InventoryIdle
    /\ ControllerIdle
    /\ ReconcilersIdle
    /\ OciIdle

NextInv ==
    \/ \E x \in Item, p \in Content : StoreItem(x, p)
    \/ \E x \in Item : DeleteItem(x)
    \/ \E key \in Key : StoreKeyed(key)

SpecInv == InitInv /\ [][NextInv]_vars

(***************************************************************************)
(* Specification of the Schedule calls of several projects on one          *)
(* scheduler.                                                              *)
(***************************************************************************)
InitSched ==
    /\ SchedulerIdle
    /\ UpdaterIdle
    /\ StrategyIdle
    /\ ContextLive
    /\ InstallStart
    /\ ConfigIdle
    /\ ProjectIdle
    /\ GraphIdle
    /\ PackagesIdle
    /\ OverlapIdle
    /\ InventoryIdle
    /\ ReconcilersIdle
    /\ OciIdle

NextSched ==
    \E projectUID \in Uid, updateInstructions \in Instructions :
        Schedule(projectUID, updateInstructions)

SpecSched == InitSched /\ [][NextSched]_vars

(***************************************************************************)
(* Specification of the Schedule goroutines of the ticks of one project.   *)
(***************************************************************************)
NextOverlap ==
    \E g \in ScheduleGoroutine :
        \/ \E instruction \in UpdateInstruction : scheduleGo(g, instruction)
        \/ scheduleRemove(g)
        \/ upsertLookup(g)
        \/ upsertUpdate(g)
        \/ upsertNew(g)

SpecOverlap == InitSched /\ [][NextOverlap]_vars

(***************************************************************************)
(* Specification of the scans of the jobs and the updater.                 *)
(***************************************************************************)
InitUpd ==
    /\ UpdaterIdle
    /\ SchedulerIdle
    /\ StrategyIdle
    /\ ContextLive
    /\ InstallStart
    /\ ConfigIdle
    /\ ProjectIdle
    /\ GraphIdle
    /\ PackagesIdle
    /\ OverlapIdle
    /\ InventoryIdle
    /\ ReconcilersIdle
    /\ OciIdle

NextUpd ==
    \/ \E t \in ScanTask : scanStart(t)
    \/ \E t \in ScanTask : scanNoUpdate(t)
    \/ \E t \in ScanTask : scanHasUpdate(t)
    \/ \E t \in ScanTask : updateChanSend(t)
    \/ \E t \in ScanTask : update(t)

SpecUpd == InitUpd /\ [][NextUpd]_vars

(***************************************************************************)
(* Specification of HasNewerRemoteVersion on any constraint, current       *)
(* version and list of remote versions.                                    *)
(***************************************************************************)
InitStrategy ==
    /\ semverCall \in [constraint : ConstraintString, currentVersion : VersionString,
                        remoteVersions : RemoteVersions]
    /\ semverRet = NoReturn
    /\ SchedulerIdle
    /\ UpdaterIdle
    /\ ContextLive
    /\ InstallStart
    /\ ConfigIdle
    /\ ProjectIdle
    /\ GraphIdle
    /\ PackagesIdle
    /\ OverlapIdle
    /\ InventoryIdle
    /\ ReconcilersIdle
    /\ OciIdle

NextStrategy == CallHasNewerRemoteVersion

SpecStrategy == InitStrategy /\ [][NextStrategy]_vars

(***************************************************************************)
(* Specification of Install's loop over the objects.  The steps of the     *)
(* goroutine are taken eventually: a call of Apply returns, a sleep ends.  *)
(***************************************************************************)
InitInstall ==
    /\ InstallStart
    /\ ConfigIdle
    /\ SchedulerIdle
    /\ UpdaterIdle
    /\ StrategyIdle
    /\ ContextLive
    /\ ProjectIdle
    /\ GraphIdle
    /\ PackagesIdle
    /\ OverlapIdle
    /\ InventoryIdle
    /\ ReconcilersIdle
    /\ OciIdle

InstallSteps ==
    \/ installObject
    \/ \E err \in {"nil", "NotFound", "err", "ctxErr"} : applyReturn(err)
    \/ sleep

NextInstall ==
    \/ installObject
    \/ applyWait
    \/ \E err \in {"nil", "NotFound", "err", "ctxErr"} : applyReturn(err)
    \/ sleep
    \/ cancelInstall

SpecInstall == InitInstall /\ [][NextInstall]_vars /\ WF_vars(InstallSteps)

(***************************************************************************)
(* Specification of the configs of the ticks of projects with and without  *)
(* a serviceAccountName, under either revision of Reconcile.               *)
(***************************************************************************)
InitConfig ==
    /\ revision \in Revisions
    /\ kubeConfig = [Impersonate |-> NoUser]
    /\ cfg = [Impersonate |-> NoUser]
    /\ gProject = [Namespace |-> "tenant", ServiceAccountName |-> ""]
    /\ cfgTicks = 0
    /\ SchedulerIdle
    /\ UpdaterIdle
    /\ StrategyIdle
    /\ ContextLive
    /\ InstallStart
    /\ ProjectIdle
    /\ GraphIdle
    /\ PackagesIdle
    /\ OverlapIdle
    /\ InventoryIdle
    /\ ReconcilersIdle
    /\ OciIdle

NextConfig ==
    \E namespace \in Namespace, serviceAccountName \in ServiceAccountName :
        ReconcileConfig(namespace, serviceAccountName)

SpecConfig == InitConfig /\ [][NextConfig]_vars

(***************************************************************************)
(* Specification of calls of the project reconciler for projects with any  *)
(* suspend flag, where any step may fail.                                  *)
(***************************************************************************)
InitProject ==
    /\ ProjectIdle
    /\ ConfigIdle
    /\ SchedulerIdle
    /\ UpdaterIdle
    /\ StrategyIdle
    /\ ContextLive
    /\ InstallStart
    /\ GraphIdle
    /\ PackagesIdle
    /\ OverlapIdle
    /\ InventoryIdle
    /\ ReconcilersIdle
    /\ OciIdle

NextProject ==
    \E suspend \in Suspend, fault \in Faults, componentError \in BOOLEAN :
        CallReconcile(suspend, fault, componentError)

SpecProject == InitProject /\ [][NextProject]_vars

(***************************************************************************)
(* Specification of TopologicalSort and Layer on any inserted graph.       *)
(***************************************************************************)
InitGraph ==
    /\ depGraph \in DependencyGraphs
    /\ sortRet = NoSort
    /\ layerRet = NoLayers
    /\ ProjectIdle
    /\ ConfigIdle
    /\ SchedulerIdle
    /\ UpdaterIdle
    /\ StrategyIdle
    /\ ContextLive
    /\ InstallStart
    /\ PackagesIdle
    /\ OverlapIdle
    /\ InventoryIdle
    /\ ReconcilersIdle
    /\ OciIdle

NextGraph ==
    \/ SortGraph
    \/ LayerSorted

SpecGraph == InitGraph /\ [][NextGraph]_vars

(***************************************************************************)
(* Specification of one Manager.Load over a project tree, for the positive *)
(* pool sizes.                                                             *)
(***************************************************************************)
InitPackages ==
    /\ pkgPoolSize \in PackagePoolSizes
    /\ walked = 0
    /\ sending = 0
    /\ packageChan = 0
    /\ consumer = "running"
    /\ chanClosed = FALSE
    /\ loadRet = "none"
    /\ GraphIdle
    /\ ProjectIdle
    /\ ConfigIdle
    /\ SchedulerIdle
    /\ UpdaterIdle
    /\ StrategyIdle
    /\ ContextLive
    /\ InstallStart
    /\ OverlapIdle
    /\ InventoryIdle
    /\ ReconcilersIdle
    /\ OciIdle

NextPackages ==
    \/ \E hasCUE \in BOOLEAN : walkDirGo(hasCUE)
    \/ packageChanSend
    \/ \E ok \in BOOLEAN : consumerReceive(ok)
    \/ closePackageChan
    \/ consumerDone
    \/ loadReturn

SpecPackages == InitPackages /\ [][NextPackages]_vars

(***************************************************************************)
(* Specification of one Reconcile run over any graph and pool size.        *)
(***************************************************************************)
ReconcileStart ==
    /\ deps \in Graphs
    /\ instances = Comp
    /\ recPhase = "idle"
    /\ layerIdx = 0
    /\ pc = [c \in Comp |-> "idle"]
    /\ outcome = [c \in Comp |-> "none"]
    /\ errChan = NoComp
    /\ errComponents = {}
    /\ prevLayerErrComponents = {}
    /\ recErr = NoComp
    /\ firstError = NoComp
    /\ inventory = {}
    /\ applied = {}
    /\ applyOk = {}
    /\ tickPhase = "apply"
    /\ ticks = 1
    /\ dag = Comp
    /\ gcItems = {}
    /\ gcPc = [i \in Comp |-> "idle"]
    /\ gcErr = NoComp
    /\ tickResult = "none"
    /\ gcCollected = {}
    /\ gcDeleted = {}
    /\ subsetTick = FALSE
    /\ OciIdle
    /\ InventoryIdle
    /\ ControllerIdle

InitRec ==
    /\ workerPoolSize \in PoolSizes
    /\ ReconcileStart

NextRec ==
    \/ Reconcile
    \/ \E c \in Comp : Go(c)
    \/ \E c \in Comp : reconcileOk(c)
    \/ \E c \in Comp, r \in ReconcileErrors : reconcileErr(c, r)
    \/ \E c \in Comp : errChanSend(c)
    \/ errComponentsInsert
    \/ reconcileLayerReturn

SpecRec == InitRec /\ [][NextRec]_vars

(***************************************************************************)
(* Specification of one Reconcile run for every value the WorkerPoolSize   *)
(* field can be left at, the zero value of a Reconciler built without it   *)
(* included.                                                               *)
(***************************************************************************)
InitPool ==
    /\ workerPoolSize \in ConfiguredPoolSizes
    /\ ReconcileStart

SpecPool == InitPool /\ [][NextRec]_vars

(***************************************************************************)
(* Specification of one Reconcile run whose context may be cancelled at    *)
(* any moment of the run.                                                  *)
(***************************************************************************)
NextCancel ==
    \/ NextRec
    \/ cancel

SpecCancel == InitRec /\ [][NextCancel]_vars

(***************************************************************************)
(* Specification of the ticks of one project: load, sort, collect, apply.  *)
(***************************************************************************)
InitTick ==
    /\ deps \in Graphs
    /\ instances = {}
    /\ workerPoolSize \in TickPoolSizes
    /\ recPhase = "idle"
    /\ layerIdx = 0
    /\ pc = [c \in Comp |-> "idle"]
    /\ outcome = [c \in Comp |-> "none"]
    /\ errChan = NoComp
    /\ errComponents = {}
    /\ prevLayerErrComponents = {}
    /\ recErr = NoComp
    /\ firstError = NoComp
    /\ inventory = {}
    /\ applied = {}
    /\ applyOk = {}
    /\ tickPhase = "idle"
    /\ ticks = 0
    /\ dag = {}
    /\ gcItems = {}
    /\ gcPc = [i \in Comp |-> "idle"]
    /\ gcErr = NoComp
    /\ tickResult = "none"
    /\ gcCollected = {}
    /\ gcDeleted = {}
    /\ subsetTick = FALSE
    /\ OciIdle
    /\ InventoryIdle
    /\ ControllerIdle

NextTick ==
    \/ ProjectLoad
    \/ TopologicalSort
    \/ Collect
    \/ \E i \in Comp : collect(i)
    \/ \E i \in Comp : collectOk(i)
    \/ \E i \in Comp, f \in {"clusterErr", "inventoryErr"} : collectErr(i, f)
    \/ CollectReturn
    \/ NextRec
    \/ ReconcileReturn

SpecTick == InitTick /\ [][NextTick]_vars

(***************************************************************************)
(* Claims about the component reconciler.                                  *)
(***************************************************************************)
\* C1: a component with a dependency that failed in the immediately
\* preceding layer gets no apply and no chart reconcile call in this run.
C1_SkipOnErroneousParent ==
    \A c \in applied : \A d \in deps[c] :
        LayerOf(deps, d) = LayerOf(deps, c) - 1 => outcome[d] # "err"

\* the run is over, a dependency in the preceding layer failed and the
\* dependent component was skipped without a call
C1_Witness ==
    /\ recPhase = "done"
    /\ \E c \in Comp : \E d \in deps[c] :
        /\ LayerOf(deps, d) = LayerOf(deps, c) - 1
        /\ outcome[d] = "err"
        /\ outcome[c] = "skipped"
        /\ c \notin applied

\* C2: no component's reconcile starts unless every declared dependency was
\* successfully reconciled earlier in the run, whatever layer the dependency
\* is in and also when the dependency was itself skipped.
C2_OnlyAfterDependenciesReconciled ==
    \A c \in applied : \A d \in deps[c] : outcome[d] = "ok"

\* C3: no component of a later layer begins reconciling until every task of
\* the earlier layers has finished, whether it succeeded or failed.
C3_LayerBarrier ==
    \A c \in Comp : pc[c] # "idle" =>
        \A d \in Comp : LayerOf(deps, d) < LayerOf(deps, c) => pc[d] = "done"

\* a component of layer 1 is being reconciled after a layer 0 in which one
\* task failed and another succeeded
C3_Witness ==
    \E c \in Comp :
        /\ LayerOf(deps, c) = 1
        /\ pc[c] = "running"
        /\ \E d, e \in Layer(0) : d # e /\ outcome[d] = "err" /\ outcome[e] = "ok"

\* C40: the error set reconcileLayer hands to the next layer holds exactly
\* the ids of the components of that layer whose reconcile returned an
\* error, neither one more nor one less, from the moment the next layer is
\* entered.
C40_ErrorSetIsExactlyTheFailedOfTheLayer ==
    (recPhase \in {"inLayer", "done"} /\ layerIdx > 0) =>
        prevLayerErrComponents = {c \in Layer(layerIdx - 1) : outcome[c] = "err"}

\* the second layer runs with the error set of a first layer in which one
\* component failed, one succeeded, and a task of the second layer was
\* skipped on it
C40_Witness ==
    /\ recPhase = "inLayer"
    /\ layerIdx = 1
    /\ \E c, d \in Layer(0) :
            /\ outcome[c] = "err" /\ outcome[d] = "ok"
            /\ prevLayerErrComponents = {c}
    /\ \E e \in Layer(1) : outcome[e] = "skipped"

\* C38: Reconcile always returns, for any WorkerPoolSize and any layers,
\* if every apply or chart call returns: there is no state in which
\* Reconcile has not returned, a task of the layer waits in recEG.Go for a
\* free worker and no task is running that could free one.
C38_NoTaskWaitsForeverForAWorker ==
    ~(/\ recPhase = "inLayer"
      /\ \E c \in Layer(layerIdx) : pc[c] = "idle"
      /\ ~HasFreeWorker
      /\ \A c \in Comp : pc[c] \notin {"running", "sending"})

\* C13: Reconcile returns nil iff no attempted component failed; otherwise
\* it returns an error raised in the earliest layer in which a component
\* failed, and an error of a later layer never replaces it.
C13_FirstErrorOfEarliestLayer ==
    /\ firstError # NoComp =>
            /\ outcome[firstError] = "err"
            /\ \A c \in Comp : outcome[c] = "err" =>
                    LayerOf(deps, c) >= LayerOf(deps, firstError)
    /\ recPhase = "done" => (firstError = NoComp <=> \A c \in Comp : outcome[c] # "err")

\* the run is over, components of two layers failed and the error returned
\* is the one of the earlier layer
C13_Witness ==
    /\ recPhase = "done"
    /\ firstError # NoComp
    /\ \E c \in Comp : outcome[c] = "err" /\ LayerOf(deps, c) > LayerOf(deps, firstError)

\* C14: Reconcile attempts every component that is not skipped for a failed
\* dependency of the preceding layer: a failure aborts neither the rest of
\* its layer nor the components of later layers that do not depend on it.
C14_EveryNonSkippedAttempted ==
    recPhase = "done" =>
        \A c \in instances :
            \/ c \in applied /\ outcome[c] \in {"ok", "err"}
            \/ /\ outcome[c] = "skipped"
               /\ \E d \in deps[c] : /\ outcome[d] = "err"
                                      /\ LayerOf(deps, d) = LayerOf(deps, c) - 1

\* a component failed, another one of its layer and one of the next layer
\* that does not depend on it were reconciled all the same
C14_Witness ==
    /\ recPhase = "done"
    /\ \E a, b \in Layer(0), c \in Layer(1) :
            /\ a # b
            /\ outcome[a] = "err"
            /\ outcome[b] = "ok"
            /\ a \notin deps[c]
            /\ outcome[c] = "ok"

\* C15: a component skipped for an erroneous dependency is in no error set
\* and its id is no error of the layer or of Reconcile.
C15_SkippedIsNoError ==
    \A c \in Comp : outcome[c] = "skipped" =>
        /\ c \notin errComponents
        /\ c \notin prevLayerErrComponents
        /\ errChan # c
        /\ recErr # c
        /\ firstError # c

\* the layer of a skipped component has returned with an empty error set
C15_Witness ==
    \E c \in Comp :
        /\ outcome[c] = "skipped"
        /\ layerIdx > LayerOf(deps, c)
        /\ prevLayerErrComponents = {}
        /\ firstError # NoComp

\* C16 (as stated): once reconcile has returned for a manifest, the
\* inventory holds its item if and only if its server-side apply succeeded.
C16_ItemIffApplySucceeded ==
    \A c \in Comp : (KindOf(c) = "Manifest" /\ outcome[c] \in {"ok", "err"}) =>
        (c \in inventory <=> c \in applyOk)

\* C16 (amended): once reconcile has returned for a manifest, the inventory
\* holds its item only if its server-side apply succeeded, and does hold it
\* if reconcile returned nil; a failed apply writes no item.
C16_ItemOnlyAfterApply ==
    \A c \in Comp : (KindOf(c) = "Manifest" /\ outcome[c] \in {"ok", "err"}) =>
        /\ outcome[c] = "ok" => (c \in inventory /\ c \in applyOk)
        /\ c \in inventory => c \in applyOk

\* one manifest was applied and stored, the apply of another one failed
\* and left no item
C16_Witness ==
    \E c, d \in Comp :
        /\ KindOf(c) = "Manifest" /\ outcome[c] = "ok" /\ c \in inventory
        /\ KindOf(d) = "Manifest" /\ outcome[d] = "err" /\ d \notin applyOk
        /\ d \notin inventory

(***************************************************************************)
(* Claims about the project tick and the garbage collector.                *)
(***************************************************************************)
\* C4: within a tick, garbage collection runs only on a loaded and sorted
\* project, and no component apply starts until garbage collection has
\* completed (every collect task returned, without error).
C4_TickPhasesSequential ==
    /\ (tickPhase = "gc" \/ \E i \in Comp : gcPc[i] # "idle") =>
            /\ tickPhase \in {"gc", "apply", "returned", "failed"}
            /\ instances = dag
            /\ ~UnknownDependency
    /\ (recPhase # "idle" \/ \E c \in Comp : pc[c] # "idle") =>
            /\ tickPhase \in {"apply", "returned"}
            /\ \A i \in gcItems : gcPc[i] = "done"
            /\ gcErr = NoComp

\* a component is being applied in a tick whose collection removed an item
C4_Witness ==
    /\ tickPhase = "apply"
    /\ gcCollected # {}
    /\ \E c \in Comp : pc[c] = "running"

\* C5: after a tick (a full pass load, collect, apply, report) on a graph
\* that is a strict subset of the previously reconciled graph, the ids of
\* the inventory are exactly the ids of the new graph.
C5_InventoryExactAfterSubsetTick ==
    (tickPhase = "returned" /\ subsetTick) => inventory = dag

\* a tick on a non-empty strict subset returned and its collection removed
\* the ids that are no longer declared
C5_Witness ==
    /\ tickPhase = "returned"
    /\ subsetTick
    /\ dag # {}
    /\ gcCollected # {}
    /\ gcCollected \cap inventory = {}
    /\ inventory = dag

\* C6: Collect deletes no cluster object, uninstalls no release and removes
\* no inventory record for an item whose id is a node of the current graph.
C6_CollectSparesGraphItems ==
    /\ gcCollected \cap dag = {}
    /\ tickPhase \in {"gc", "apply"} /\ recPhase = "idle" =>
            /\ gcItems \cap dag \subseteq inventory

\* a collection has finished that removed a dangling item and kept the
\* record of an item of the graph
C6_Witness ==
    /\ tickPhase = "apply"
    /\ gcCollected # {}
    /\ \E i \in gcItems \cap dag : i \in inventory /\ gcPc[i] = "done"

\* C22: Collect removes the inventory record of an item only after the
\* cluster delete / helm uninstall of the item succeeded; if that operation
\* fails the record stays in the inventory.
C22_RecordRemovedAfterClusterDelete ==
    tickPhase = "gc" => \A i \in gcItems : i \notin gcDeleted => i \in inventory

\* the cluster delete of one dangling item failed and its record is kept,
\* that of another one succeeded and its record is gone
C22_Witness ==
    /\ tickPhase = "gc"
    /\ \E i, j \in gcItems :
            /\ i \in gcCollected /\ gcPc[i] = "done" /\ i \notin gcDeleted /\ i \in inventory
            /\ j \in gcDeleted /\ j \notin inventory

C39_CollectErrorIsHardError ==
    gcErr # NoComp =>
        /\ applied = {}
        /\ recPhase = "idle"
        /\ \A c \in Comp : pc[c] = "idle"
        /\ tickPhase \in {"gc", "failed"}
        /\ tickPhase = "failed" => tickResult = "hardError"

\* a tick on a sorted graph with components failed on the error of a
\* collect task, with the item still in the inventory
C39_Witness ==
    /\ tickPhase = "failed"
    /\ tickResult = "hardError"
    /\ gcErr # NoComp
    /\ gcErr \in inventory
    /\ instances # {}
    /\ applied = {}

(***************************************************************************)
(* Claims about the OCI loader and the project manager's Load.             *)
(***************************************************************************)
\* C7 (as stated): for a cache directory every digest is unpacked at most
\* once; a digest that was unpacked successfully is never unpacked again,
\* whatever loads of other digests happen in between.
C7_UnpackedAtMostOnce ==
    last.wasUnpackedOk => last.unpack = "none"

\* C7 (amended): a digest that LoadImage returned is not unpacked again for
\* as long as no LoadImage call for another image got past the completion
\* check (prepareDirs removes every marker) in between.
C7_NoUnpackWhileMarkerKept ==
    last.wasValid => last.unpack = "none"

\* a digest that was unpacked and returned before is loaded again and the
\* call is answered from the marker, without an unpack
C7_Witness ==
    /\ last.wasValid
    /\ last.wasUnpackedOk
    /\ last.digest = last.image
    /\ last.unpack = "none"
    /\ loads >= 2

\* C8: a LoadImage call that follows a call on the same target which
\* returned a digest, with the registry serving the same image, returns the
\* same digest (if it gets to the registry) and creates, modifies and
\* deletes nothing under the target directory.
C8_RepeatedLoadLeavesTargetAlone ==
    last.repeatOf # NoDigest =>
        /\ ~last.prepared
        /\ ~last.changed
        /\ last.unpack = "none"
        /\ last.cause # "registry" => (last.err = "nil" /\ last.digest = last.repeatOf)

\* the second of two successive calls returned the digest of the first, on
\* a target directory that holds the unpacked packages
C8_Witness ==
    /\ last.repeatOf # NoDigest
    /\ last.digest = last.repeatOf
    /\ tdir[last.target].exists
    /\ walkDir(tdir[last.target].files) = artifact[last.digest]

\* C9: a load of an image whose manifest or config media type is not the
\* navecd one aborts the project load with a hard error, it never continues
\* with the tree loaded before.
C9_WrongMediaTypeIsHardError ==
    (WrongManifestOrConfig(last.image) /\ last.cause = "WrongMediaType") =>
        last.result = "hardError"

\* C10: when the remote load fails with a recoverable error and a tree
\* loaded before exists, Manager.Load returns an instance with the graph of
\* that tree and the load error set.
C10_RecoverableLoadKeepsPreviousGraph ==
    (last.hadTree /\ OCIRemoteLoaderLoad(last).err = "RecoverableLoadError") =>
        /\ last.result = "instance"
        /\ last.graphKept

\* C11 (as stated): whenever the load fails with a RecoverableLoadError, its
\* BackupPath names an existing directory whose tree has the shape targetDir
\* had before the call.
C11_BackupPathMirrorsTarget ==
    OCIRemoteLoaderLoad(last).err = "RecoverableLoadError" => last.backupMirrors

\* C11 (amended): whenever the load fails with a RecoverableLoadError before
\* anything was unpacked, and targetDir existed before the call or the call
\* got as far as creating it, BackupPath names an existing directory whose
\* tree has the shape targetDir had before the call.
C11_BackupPathMirrorsExistingTarget ==
    (/\ OCIRemoteLoaderLoad(last).err = "RecoverableLoadError"
     /\ last.unpack = "none"
     /\ (last.hadDir \/ last.prepared)) => last.backupMirrors

\* a download failed over a tree that holds packages, and the backup has an
\* empty file for each of them
C11_Witness ==
    /\ last.err = "RecoverableError"
    /\ last.cause = "download"
    /\ last.backupMirrors
    /\ \E p \in Path : bkp[last.target].files[p] = Placeholder

\* C12: after a successful load of a new artifact over a tree loaded before,
\* the returned graph holds exactly the components the new artifact
\* declares; a component only the old artifact declared is absent.
C12_GraphIsTheNewArtifact ==
    (last.hadTree /\ last.unpack = "ok" /\ last.err = "nil" /\ last.result = "instance") =>
        last.graph = {<<p, last.digest>> : p \in artifact[last.digest]}

\* C36: whenever LoadImage returns a digest without an error, the target
\* directory of the call exists and holds every file of that artifact with
\* the artifact's content, also when the digest was loaded before for
\* another target directory of the same cache directory.
C36_ReturnedDigestIsUnpackedInTarget ==
    (last.err = "nil" /\ last.digest # NoDigest) =>
        /\ tdir[last.target].exists
        /\ \A p \in artifact[last.digest] : tdir[last.target].files[p] = last.digest

(***************************************************************************)
(* Claims about the inventory.                                             *)
(***************************************************************************)
\* C18: StoreItem(x, p) followed by GetItem(x) reads back exactly the bytes
\* p, for any content p, newline-terminated or not, the empty one included.
C18_StoreGetRoundTrip ==
    (invLast.op = "StoreItem" /\ invLast.err = "nil") =>
        GetItem(invLast.item) = [err |-> "nil", data |-> invLast.content]

\* C19: after any sequence of StoreItem and DeleteItem calls, with every
\* manifest item stored with a JSON document, Load succeeds, the ids of its
\* Items() are the ids stored and not deleted since, and HasItem agrees.
C19_LoadItemsAreStoredIds ==
    (/\ invKeyed = NoKey
     /\ \A x \in invStored : ItemKind(x) = "Manifest" => x \in invDecodable) =>
        /\ Load.err = "nil"
        /\ Load.items = invStored
        /\ \A x \in Item : HasItem(Load, x) <=> x \in invStored

\* C21: Load returns the WrongInventoryKey error for a stored file whose
\* name splits on '_' into a number of segments other than 3 and 4.
C21_OtherArityIsWrongInventoryKey ==
    (/\ invKeyed # NoKey
     /\ Len(Split(invKeyed)) \notin {3, 4}
     /\ \A x \in DOMAIN invFiles : ItemKind(x) = "Manifest" => Decode(invFiles[x]) = "nil") =>
        Load.err = "ErrWrongInventoryKey"

\* C20: a DeleteItem that returns no error has removed the file of the item
\* and, if the bucket holds no file any more, the bucket directory too.
C20_DeleteRemovesEmptiedBucket ==
    (invLast.op = "DeleteItem" /\ invLast.err = "nil") =>
        /\ invLast.item \notin DOMAIN invFiles
        /\ FilesIn(invFiles, itemNs(invLast.item)) = {} =>
               itemNs(invLast.item) \notin invDirs

(***************************************************************************)
(* Claims about the update scheduler.                                      *)
(***************************************************************************)
\* C23: a Schedule call with the project UID and the instructions of the
\* call before it leaves the job set, as names and tags, as it was.
C23_ScheduleTwiceSameJobs == schedLast.repeat => schedLast.unchanged

\* a repeated call on a scheduler that holds as many jobs as the request
\* has instructions of different names or lines
C23_Witness ==
    /\ schedLast.repeat
    /\ Len(schedLast.instructions) = 2
    /\ Cardinality(jobs) = 2

\* C24: after Schedule returns, every job of the name prefix of the project
\* has the target name, the file and the line of an instruction of the
\* request.
C24_JobsOfProjectAreReaffirmed ==
    schedLast.uid # NoUid =>
        \A job \in jobs :
            HasPrefix(job.name, schedLast.uid \o <<"-">>) =>
                \E i \in 1..Len(schedLast.instructions) :
                    /\ job.name = jobName(schedLast.uid, schedLast.instructions[i])
                    /\ keyValueTag("file", schedLast.instructions[i].file) \in job.tags
                    /\ keyValueTag("line", schedLast.instructions[i].line) \in job.tags

\* a call removed a job of the project and left another one
C24_Witness ==
    /\ schedLast.removed
    /\ \E job \in jobs : HasPrefix(job.name, schedLast.uid \o <<"-">>)

\* C25: Schedule for one project UID neither removes nor changes a job
\* created for another project UID.
C25_OtherProjectsJobsKept == schedLast.othersKept

\* C37: at any time the scheduler holds at most one job for a project UID
\* and a target name, also while the Schedule goroutines of two ticks of
\* the project overlap.
C37_OneJobPerProjectAndTarget ==
    \A job, other \in jobs :
        (job.owner = other.owner /\ job.name = other.name) => job = other

\* C26: no two AvailableUpdate events are processed (file edit, commit,
\* push) at the same time, however many jobs scan side by side.
C26_UpdatesSerialized ==
    Cardinality({t \in ScanTask : updating[t] # "none"}) <= 1

\* an update is being committed while two other jobs scan and wait to send
C26_Witness ==
    \E t, u, v \in ScanTask :
        /\ updating[t] = "commit"
        /\ scanPc[u] = "scanning"
        /\ scanPc[v] = "sending"

\* the remote versions of the call that parse and satisfy the constraint
C27_Acceptable ==
    {NewVersion(semverCall.remoteVersions[i]) : i \in
        {j \in DOMAIN semverCall.remoteVersions :
            /\ NewVersion(semverCall.remoteVersions[j]) # Invalid
            /\ Check(semverCall.constraint, NewVersion(semverCall.remoteVersions[j]))}}

\* whether a remote version of the call is discarded
C27_Discarded(version) ==
    NewVersion(version) = Invalid \/ ~Check(semverCall.constraint, NewVersion(version))

\* C27: HasNewerRemoteVersion reports isNewer exactly when the greatest remote
\* version that parses and satisfies the constraint is strictly greater than
\* the current version, and the result is that of the same call without the
\* unparseable and the constraint-violating remote versions.
C27_NewerIffGreatestAcceptableIsGreater ==
    semverRet # NoReturn =>
        /\ semverRet.isNewer <=>
              /\ NewConstraint(semverCall.constraint)
              /\ NewVersion(semverCall.currentVersion) # Invalid
              /\ \E g \in C27_Acceptable :
                    /\ \A o \in C27_Acceptable : ~GreaterThan(o, g)
                    /\ GreaterThan(g, NewVersion(semverCall.currentVersion))
        /\ semverRet = HasNewerRemoteVersion(semverCall.constraint, semverCall.currentVersion,
                          SelectSeq(semverCall.remoteVersions, LAMBDA v : ~C27_Discarded(v)))

\* a newer version was reported although a remote version greater than it
\* violates the constraint
C27_Witness ==
    /\ semverRet.isNewer
    /\ semverCall.constraint = "<2.0.0"
    /\ \E i \in DOMAIN semverCall.remoteVersions : semverCall.remoteVersions[i] = "2.0.0"

\* C28: once the context is cancelled, Reconcile starts no further layer:
\* no step taken after the cancellation enters a layer.
C28_NoLayerAfterCancel ==
    [][ctxDone => ~(/\ recPhase' = "inLayer"
                    /\ recPhase = "idle" \/ layerIdx' # layerIdx)]_vars

\* C29: the retry of Apply on NotFound terminates: Install returns; it
\* sleeps and retries only after Apply returned NotFound, it returns any
\* other error of Apply as it is, and it attempts no Apply once the context
\* is cancelled or its timeout has elapsed.
C29_RetryTerminates ==
    /\ [](/\ ~installLate
          /\ installPc = "sleep" => installLast = "NotFound"
          /\ installPc = "returned" =>
                /\ installRet \in {"nil", "err", "ctxErr"}
                /\ installLast \in {"err", "ctxErr"} => installRet = installLast
                /\ installLast = "NotFound" => installRet = "ctxErr")
    /\ <>(installPc = "returned")

\* the retries of the second object ran into the timeout: after the last
\* NotFound the select returned the context's error
C29_Witness ==
    /\ installPc = "returned"
    /\ installObj = NObject
    /\ installRet = "ctxErr"
    /\ installLast = "NotFound"
    /\ installClock = TimeoutSeconds
    /\ ~installCancelled

\* C30: a tick of a project with a serviceAccountName never modifies the
\* shared base config, and a tick of a project without one runs with the
\* base config without impersonation.
C30_BaseConfigNeverImpersonated ==
    /\ kubeConfig.Impersonate = NoUser
    /\ (cfgTicks > 0 /\ gProject.ServiceAccountName = "") => cfg.Impersonate = NoUser

\* C31: a call for a suspended project returns {suspended: true} and no
\* error, and runs no load, no garbage collection, no apply and no Schedule.
C31_SuspendedDoesNothing ==
    (projCalls > 0 /\ projLast.suspend = "true") =>
        /\ projLast.result = "suspended"
        /\ projLast.err = "nil"
        /\ ~projLast.loaded /\ ~projLast.scheduled /\ ~projLast.collected /\ ~projLast.applied

\* a suspended call after a call that loaded, scheduled, collected and applied
C31_Witness ==
    /\ projCalls > 1
    /\ projLast.suspend = "true"
    /\ projLast.result = "suspended"
    /\ projDone = [load |-> 1, schedule |-> 1, collect |-> 1, apply |-> 1]

\* C32: a project whose spec.suspend is not set is treated as not suspended
\* and is reconciled normally.
C32_UnsetSuspendIsNotSuspended ==
    (projCalls > 0 /\ projLast.suspend = "nil") =>
        /\ projLast.result \in {"ok", "componentError", "error"}
        /\ projLast.result = "ok" => projLast.applied

\* C33: in the order TopologicalSort returns for a graph, every component
\* of the graph appears once, after all of its declared dependencies.
C33_SortedAfterDependencies ==
    sortRet.err = "nil" =>
        LET S == sortRet.instances
        IN  /\ {S[i] : i \in DOMAIN S} = depGraph.nodes
            /\ Len(S) = Cardinality(depGraph.nodes)
            /\ \A i \in DOMAIN S : \A b \in depGraph.dependencies[S[i]] :
                    \E j \in DOMAIN S : S[j] = b /\ j < i

\* a sorted graph in which the component with the smallest id is the last
\* of a chain of dependencies
C33_Witness ==
    /\ sortRet.err = "nil"
    /\ depGraph.nodes = NodeId
    /\ Len(sortRet.instances) = NNode
    /\ sortRet.instances[NNode] = 1
    /\ \A n \in NodeId : n < NNode => n + 1 \in depGraph.dependencies[n]

\* C34: Layer puts every component one layer above its deepest dependency,
\* and layer 0 holds exactly the components without dependencies.
C34_LayerIsOnePlusMaxOfDependencies ==
    layerRet.done =>
        /\ \A n \in depGraph.nodes : \E k \in DOMAIN layerRet.layers :
              /\ n \in layerRet.layers[k]
              /\ \A j \in DOMAIN layerRet.layers : n \in layerRet.layers[j] => j = k
              /\ depGraph.dependencies[n] = {} <=> k = 1
              /\ depGraph.dependencies[n] # {} =>
                    /\ \E d \in depGraph.dependencies[n] : d \in layerRet.layers[k - 1]
                    /\ \A d \in depGraph.dependencies[n] : \E j \in 1..(k - 1) : d \in layerRet.layers[j]
        /\ \A k \in DOMAIN layerRet.layers : layerRet.layers[k] # {} /\ layerRet.layers[k] \subseteq depGraph.nodes

\* three layers: a component depends on a root and on a component of layer 1
C34_Witness ==
    /\ layerRet.done
    /\ Len(layerRet.layers) = 3
    /\ \E n \in layerRet.layers[3] : \E a \in layerRet.layers[1], b \in layerRet.layers[2] :
            {a, b} \subseteq depGraph.dependencies[n]

\* C35: Load always returns: no producer is left at its send on the full
\* packageChan after the consumer has returned with an error, when nothing
\* receives from the channel any more.
C35_NoProducerBlockedForever ==
    ~(/\ loadRet = "none"
      /\ consumer = "failed"
      /\ packageChan = PackageChanCap
      /\ sending > 0)

=============================================================================
